---- MODULE Spec2Model ----
(***************************************************************************)
(* USC (Unified Shell Command): the parameter resolver of BaseModule       *)
(* (src/modules/base.py), the boolean parameters of FileModule             *)
(* (src/modules/file.py) and the package command table of DistroAdapter    *)
(* (src/modules/distro_adapter.py).                                        *)
(*                                                                         *)
(* A Python value is a record [t |-> type name, v |-> text of the value].  *)
(* A raised exception is the record [t |-> "raise", v |-> exception name]. *)
(* A Python dict is a function whose DOMAIN is the set of its keys.        *)
(***************************************************************************)
EXTENDS Integers, Sequences, FiniteSets, TLC

VARIABLES
    config,           \* BaseModule.config, loaded once by __init__
    package_manager,  \* DistroAdapter.package_manager, set once by __init__
    op,               \* the method that ran last ("init" before any call)
    key,              \* its arguments ...
    action,
    params,
    fallback,
    value,            \* _convert_bool: the value converted
    default,          \* _convert_bool: the default supplied
    result,           \* the Python value returned, or the exception raised
    package_name,     \* get_package_command: the target
    cmd,              \* the argv built (get_package_command, file handlers)
    need_sudo,        \* get_package_command: the second element of the tuple
    host,             \* the machine: binaries on PATH, release files
    service_name,     \* get_service_command: the target
    rule,             \* get_firewall_command: the rule
    probes,           \* how often each file or binary of the host was probed
    constructed,      \* the modules that hold a DistroAdapter
    distro_id,        \* DistroAdapter.distro_id
    distro_version,   \* DistroAdapter.distro_version
    procs,            \* what the child processes do, in the order they are run
    check,            \* _run_command_capture: the check argument
    captured,         \* what _run_command_capture returned
    module_name,      \* BaseModule.name
    output_format,    \* BaseModule.output_format
    output_file,      \* BaseModule.output_file
    writable,         \* whether the output file can be written
    toml_none,        \* what the toml library does with a None value
    emitted,          \* the envelopes serialized so far, with their destination
    returned,         \* the status code a handler returned
    printed,          \* what was printed to the terminal, in order
    runs,             \* the argvs handed to subprocess.run, in order
    dirs,             \* the directories created for an output file
    copy_source,      \* file copy: the source path
    taken,            \* file copy: the numbered copies that exist already
    calls             \* how many times execute was called on the module

\* the variables of the adapter's service and firewall commands
hostVars == <<host, service_name, rule>>

\* the variables of environment detection
probeVars == <<probes, constructed, distro_id, distro_version>>

\* the variables of command execution and structured output
execVars == <<procs, check, captured, module_name, output_format, output_file,
              writable, toml_none, emitted, returned>>

\* the variables of the terminal and the file system
ioVars == <<printed, runs, dirs, copy_source, taken, calls>>

vars == <<config, package_manager, op, key, action, params, fallback, value,
          default, result, package_name, cmd, need_sudo, hostVars, probeVars,
          execVars, ioVars>>

-----------------------------------------------------------------------------
(* Python values *)

PyStr(s)    == [t |-> "str", v |-> s]
PyBool(b)   == [t |-> "bool", v |-> IF b THEN "True" ELSE "False"]
PyInt(n)    == [t |-> "int", v |-> n]
PyList(s)   == [t |-> "list", v |-> s]
PyDict(s)   == [t |-> "dict", v |-> s]
PyNone      == [t |-> "NoneType", v |-> "None"]
PyRaise(e)  == [t |-> "raise", v |-> e]

EmptyDict == [k \in {} |-> PyNone]

\* the strings a call-site parameter takes in the model ("param:value" text)
ParamStrs == {"", "true", "TRUE", "yes", "Yes", "1", "on", "ON",
              "false", "0", "maybe"}

\* str.lower() on the strings of the model
lower(s) ==
    CASE s = "TRUE" -> "true"
      [] s = "Yes"  -> "yes"
      [] s = "ON"   -> "on"
      [] OTHER      -> s

\* Python's `key in s` for a str s: substring test
IsSubstring(k, s) ==
    \/ k = s
    \/ <<k, s>> \in {<<"force", "enforced">>, <<"force", "force-all">>}

\* Python's `key in x` for a list x of the model: the list's text names
\* its single element
ListHas(k, x) == x.v = k

-----------------------------------------------------------------------------
(* The universe of configuration documents (/etc/usc/<module>.toml) *)

ParamKeys   == {"force", "verbose"}     \* keys of call-site params
ConfigKeys  == {"force"}                \* parameter keys a document sets
Actions     == {"del", "move"}          \* actions a handler resolves for
ConfigActs  == {"del"}                  \* action sections a document has

\* values a TOML document gives a parameter
ConfigLeaves == {PyStr("yes"), PyStr("false"), PyBool(TRUE), PyInt("0"), PyDict("{nested}")}

PartialFcn(D, R) == UNION {[S -> R] : S \in SUBSET D}

\* config["default"][action]: a table of parameters, or a scalar
Sections == [t : {"dict"}, keys : PartialFcn(ConfigKeys, ConfigLeaves),
             v : {"{section}"}]
            \cup [t : {"str"}, keys : {EmptyDict}, v : {"enforced", "x"}]
            \cup [t : {"int"}, keys : {EmptyDict}, v : {"5"}]
            \cup [t : {"list"}, keys : {EmptyDict}, v : {"force"}]

\* config["default"]: a table whose entries are parameters (keys) and
\* per-action sections (sections), or a scalar
Defaults == [t : {"dict"}, keys : PartialFcn(ConfigKeys, ConfigLeaves),
             sections : PartialFcn(ConfigActs, Sections), v : {"{default}"}]
            \cup [t : {"str"}, keys : {EmptyDict}, sections : {EmptyDict},
                  v : {"enforced", "x"}]
            \cup [t : {"int"}, keys : {EmptyDict}, sections : {EmptyDict},
                  v : {"5"}]

\* self.config: {} when the file is missing or unreadable, else the document
Configs == [has_default : {FALSE}, dflt : {[t |-> "dict", keys |-> EmptyDict,
                                            sections |-> EmptyDict,
                                            v |-> "{default}"]}]
           \cup [has_default : {TRUE}, dflt : Defaults]

Fallbacks == {PyStr("true"), PyStr("false"), PyNone}

\* call-site params: "force" with any text, "verbose" given or not
AllParams == {ps \in PartialFcn(ParamKeys, ParamStrs) :
                 "verbose" \in DOMAIN ps => ps["verbose"] = "false"}

NoAction == "None"                      \* action = None (the default argument)

-----------------------------------------------------------------------------
(* BaseModule: the parameter resolver *)

\* self.config.get('default', {})
config_get_default(cfg) ==
    IF cfg.has_default THEN cfg.dflt
    ELSE [t |-> "dict", keys |-> EmptyDict, sections |-> EmptyDict,
          v |-> "{default}"]

\* .get(action, {}) on a dict default
default_get_action(dflt, act) ==
    IF act \in DOMAIN dflt.sections THEN dflt.sections[act]
    ELSE [t |-> "dict", keys |-> EmptyDict, v |-> "{section}"]

\* Python's `key in x`: "True", "False", or "TypeError" when x is not iterable
key_in(k, x) ==
    CASE x.t = "dict" -> IF k \in DOMAIN x.keys THEN "True" ELSE "False"
      [] x.t = "str"  -> IF IsSubstring(k, x.v) THEN "True" ELSE "False"
      [] x.t = "list" -> IF ListHas(k, x) THEN "True" ELSE "False"
      [] OTHER        -> "TypeError"

\* Python's x[key] for a str key: the entry of a dict, TypeError otherwise
getitem(x, k) ==
    IF x.t = "dict" THEN x.keys[k] ELSE PyRaise("TypeError")

\* _get_param_value with the global layer consulted before the action layer
_get_param_value_global_first(k, act, ps, cfg, fb) ==
    IF DOMAIN ps # {} /\ k \in DOMAIN ps
    THEN PyStr(ps[k])
    ELSE
    LET dflt == config_get_default(cfg)
        action_config == default_get_action(dflt, act)
        global_config == dflt
        second ==
            IF act # NoAction
            THEN IF dflt.t # "dict"
                 THEN PyRaise("AttributeError")
                 ELSE CASE key_in(k, action_config) = "TypeError"
                             -> PyRaise("TypeError")
                        [] key_in(k, action_config) = "True"
                             -> getitem(action_config, k)
                        [] OTHER -> fb
            ELSE fb
    IN  CASE key_in(k, global_config) = "TypeError" -> PyRaise("TypeError")
          [] key_in(k, global_config) = "False" -> second
          [] OTHER ->
               IF getitem(global_config, k).t = "raise"
               THEN getitem(global_config, k)
               ELSE IF getitem(global_config, k).t # "dict"
                    THEN getitem(global_config, k)
                    ELSE second

\* BaseModule._get_param_value
_get_param_value(k, act, ps, cfg, fb) ==
    IF DOMAIN ps # {} /\ k \in DOMAIN ps
    THEN PyStr(ps[k])
    ELSE
    LET dflt == config_get_default(cfg)
        action_config == default_get_action(dflt, act)
        global_config == dflt
        third ==
            CASE key_in(k, global_config) = "TypeError" -> PyRaise("TypeError")
              [] key_in(k, global_config) = "False" -> fb
              [] OTHER ->
                   IF getitem(global_config, k).t = "raise"
                   THEN getitem(global_config, k)
                   ELSE IF getitem(global_config, k).t # "dict"
                        THEN getitem(global_config, k)
                        ELSE fb
    IN  IF act # NoAction
        THEN IF dflt.t # "dict"
             THEN PyRaise("AttributeError")
             ELSE CASE key_in(k, action_config) = "TypeError"
                         -> PyRaise("TypeError")
                    [] key_in(k, action_config) = "True"
                         -> getitem(action_config, k)
                    [] OTHER -> third
        ELSE third

\* _convert_bool with an unrecognised string coerced to the default
_convert_bool_str_default(val, dflt) ==
    CASE val.t = "bool" -> val.v = "True"
      [] val.t = "str"  -> IF lower(val.v) \in {"true", "yes", "1", "on"}
                           THEN TRUE ELSE dflt
      [] val.t = "int"  -> val.v # "0"
      [] OTHER          -> dflt

\* BaseModule._convert_bool
_convert_bool(val, dflt) ==
    CASE val.t = "bool" -> val.v = "True"
      [] val.t = "str"  -> lower(val.v) \in {"true", "yes", "1", "on"}
      [] val.t = "int"  -> val.v # "0"
      [] OTHER          -> dflt

\* _get_bool_param_value testing `params.get(key)`: an empty call-site value
\* falls through to the configuration
_get_bool_param_value_nonempty(k, act, ps, cfg, fb) ==
    IF k \in DOMAIN ps /\ ps[k] # ""
    THEN PyStr(ps[k])
    ELSE _get_param_value(k, act, EmptyDict, cfg, fb)

\* _get_bool_param_value without the empty-string case
_get_bool_param_value_no_flag(k, act, ps, cfg, fb) ==
    _get_param_value(k, act, ps, cfg, fb)

\* BaseModule._get_bool_param_value
_get_bool_param_value(k, act, ps, cfg, fb) ==
    IF DOMAIN ps # {} /\ k \in DOMAIN ps
    THEN IF ps[k] = "" THEN PyStr("true") ELSE PyStr(ps[k])
    ELSE
    LET dflt == config_get_default(cfg)
        action_config == default_get_action(dflt, act)
        global_config == dflt
        third ==
            CASE key_in(k, global_config) = "TypeError" -> PyRaise("TypeError")
              [] key_in(k, global_config) = "False" -> fb
              [] OTHER ->
                   IF getitem(global_config, k).t = "raise"
                   THEN getitem(global_config, k)
                   ELSE IF getitem(global_config, k).t # "dict"
                        THEN getitem(global_config, k)
                        ELSE fb
    IN  IF act # NoAction
        THEN IF dflt.t # "dict"
             THEN PyRaise("AttributeError")
             ELSE CASE key_in(k, action_config) = "TypeError"
                         -> PyRaise("TypeError")
                    [] key_in(k, action_config) = "True"
                         -> getitem(action_config, k)
                    [] OTHER -> third
        ELSE third

-----------------------------------------------------------------------------
(* DistroAdapter: the package command table *)

PackageManagers == {"dnf", "yum", "apt", "apt-get", "zypper", "pacman",
                    "unknown"}
PkgActions  == {"install", "remove", "update", "search", "info", "list",
                "purge"}
\* package_name: "" stands for a falsy target (None or the empty string)
PackageNames == {"", "vim", "all"}
\* **kwargs: the call-site params the handler forwards
PkgKwargs == PartialFcn({"upgrade"}, {"", "true", "yes", "false", "0"})

\* what a command builder gives back: the tuple (cmd, need_sudo), or the
\* ValueError it raises
Built(c, s) == [raised |-> "", cmd |-> c, need_sudo |-> s]
ValueError  == [raised |-> "ValueError", cmd |-> << >>, need_sudo |-> FALSE]

\* the target appended without the `if package_name:` test
append_name_always(c, name) == Append(c, name)

\* `if package_name: cmd.append(package_name)`
append_name(c, name) == IF name # "" THEN Append(c, name) ELSE c

\* kwargs.get("upgrade", False) as a condition: any non-empty string is true
kwargs_get_upgrade(kwargs) ==
    IF "upgrade" \in DOMAIN kwargs THEN kwargs["upgrade"] # "" ELSE FALSE

\* _get_dnf_command whose search branch leaves need_sudo at its initial True
_get_dnf_command_search_sudo(act, name, kwargs) ==
    CASE act = "install" ->
             Built(append_name(<<"sudo", "dnf", "install", "-y">>, name), TRUE)
      [] act = "remove" ->
             Built(append_name(<<"sudo", "dnf", "remove", "-y">>, name), TRUE)
      [] act = "update" ->
             Built(append_name(<<"sudo", "dnf", "update", "-y">>, name), TRUE)
      [] act = "search" ->
             Built(append_name(<<"dnf", "search">>, name), TRUE)
      [] act = "info" ->
             Built(append_name(<<"dnf", "info">>, name), FALSE)
      [] act = "list" ->
             Built(append_name(<<"dnf", "list", "installed">>, name), FALSE)
      [] OTHER -> ValueError

\* DistroAdapter._get_dnf_command
_get_dnf_command(act, name, kwargs) ==
    CASE act = "install" ->
             Built(append_name(<<"sudo", "dnf", "install", "-y">>, name), TRUE)
      [] act = "remove" ->
             Built(append_name(<<"sudo", "dnf", "remove", "-y">>, name), TRUE)
      [] act = "update" ->
             Built(append_name(<<"sudo", "dnf", "update", "-y">>, name), TRUE)
      [] act = "search" ->
             Built(append_name(<<"dnf", "search">>, name), FALSE)
      [] act = "info" ->
             Built(append_name(<<"dnf", "info">>, name), FALSE)
      [] act = "list" ->
             Built(append_name(<<"dnf", "list", "installed">>, name), FALSE)
      [] OTHER -> ValueError

\* DistroAdapter._get_yum_command
_get_yum_command(act, name, kwargs) ==
    CASE act = "install" ->
             Built(append_name(<<"sudo", "yum", "install", "-y">>, name), TRUE)
      [] act = "remove" ->
             Built(append_name(<<"sudo", "yum", "remove", "-y">>, name), TRUE)
      [] act = "update" ->
             Built(append_name(<<"sudo", "yum", "update", "-y">>, name), TRUE)
      [] act = "search" ->
             Built(append_name(<<"yum", "search">>, name), FALSE)
      [] act = "info" ->
             Built(append_name(<<"yum", "info">>, name), FALSE)
      [] act = "list" ->
             Built(append_name(<<"yum", "list", "installed">>, name), FALSE)
      [] OTHER -> ValueError

\* DistroAdapter._get_apt_command
_get_apt_command(act, name, kwargs) ==
    CASE act = "install" ->
             Built(append_name(<<"sudo", "apt", "install", "-y">>, name), TRUE)
      [] act = "remove" ->
             Built(append_name(<<"sudo", "apt", "remove", "-y">>, name), TRUE)
      [] act = "update" ->
             Built(IF kwargs_get_upgrade(kwargs)
                   THEN <<"sudo", "apt", "upgrade", "-y">>
                   ELSE <<"sudo", "apt", "update">>, TRUE)
      [] act = "search" ->
             Built(append_name(<<"apt", "search">>, name), FALSE)
      [] act = "info" ->
             Built(append_name(<<"apt", "show">>, name), FALSE)
      [] act = "list" ->
             Built(append_name(<<"apt", "list", "--installed">>, name), FALSE)
      [] OTHER -> ValueError

\* DistroAdapter._get_apt_get_command
_get_apt_get_command(act, name, kwargs) ==
    CASE act = "install" ->
             Built(append_name(<<"sudo", "apt-get", "install", "-y">>, name), TRUE)
      [] act = "remove" ->
             Built(append_name(<<"sudo", "apt-get", "remove", "-y">>, name), TRUE)
      [] act = "update" ->
             Built(IF kwargs_get_upgrade(kwargs)
                   THEN <<"sudo", "apt-get", "upgrade", "-y">>
                   ELSE <<"sudo", "apt-get", "update">>, TRUE)
      [] act = "search" ->
             Built(append_name(<<"apt-cache", "search">>, name), FALSE)
      [] act = "info" ->
             Built(append_name(<<"apt-cache", "show">>, name), FALSE)
      [] act = "list" ->
             Built(IF name # "" THEN <<"dpkg", "-l">> \o <<"|", "grep", name>>
                   ELSE <<"dpkg", "-l">>, FALSE)
      [] OTHER -> ValueError

\* DistroAdapter._get_zypper_command
_get_zypper_command(act, name, kwargs) ==
    CASE act = "install" ->
             Built(append_name(<<"sudo", "zypper", "install", "-y">>, name), TRUE)
      [] act = "remove" ->
             Built(append_name(<<"sudo", "zypper", "remove", "-y">>, name), TRUE)
      [] act = "update" ->
             Built(IF kwargs_get_upgrade(kwargs)
                   THEN <<"sudo", "zypper", "update", "-y">>
                   ELSE <<"sudo", "zypper", "refresh">>, TRUE)
      [] act = "search" ->
             Built(append_name(<<"zypper", "search">>, name), FALSE)
      [] act = "info" ->
             Built(append_name(<<"zypper", "info">>, name), FALSE)
      [] act = "list" ->
             Built(append_name(<<"zypper", "search", "-i">>, name), FALSE)
      [] OTHER -> ValueError

\* DistroAdapter._get_pacman_command
_get_pacman_command(act, name, kwargs) ==
    CASE act = "install" ->
             Built(append_name(<<"sudo", "pacman", "-S", "--noconfirm">>, name), TRUE)
      [] act = "remove" ->
             Built(append_name(<<"sudo", "pacman", "-R", "--noconfirm">>, name), TRUE)
      [] act = "update" ->
             Built(<<"sudo", "pacman", "-Syu", "--noconfirm">>, TRUE)
      [] act = "search" ->
             Built(append_name(<<"pacman", "-Ss">>, name), FALSE)
      [] act = "info" ->
             Built(append_name(<<"pacman", "-Si">>, name), FALSE)
      [] act = "list" ->
             Built(append_name(<<"pacman", "-Q">>, name), FALSE)
      [] OTHER -> ValueError

\* DistroAdapter.get_package_command
get_package_command(pm, act, name, kwargs) ==
    CASE pm = "dnf"     -> _get_dnf_command(act, name, kwargs)
      [] pm = "yum"     -> _get_yum_command(act, name, kwargs)
      [] pm = "apt"     -> _get_apt_command(act, name, kwargs)
      [] pm = "apt-get" -> _get_apt_get_command(act, name, kwargs)
      [] pm = "zypper"  -> _get_zypper_command(act, name, kwargs)
      [] pm = "pacman"  -> _get_pacman_command(act, name, kwargs)
      [] OTHER          -> ValueError

-----------------------------------------------------------------------------
(* DistroAdapter: the host and the existence probe *)

\* Python's None where a str is expected (service_name, rule)
NoneStr == "<None>"

\* `if x:` for an optional str
truthy(x) == x # NoneStr /\ x # ""

Tools == {"dnf", "yum", "apt", "apt-get", "zypper", "pacman",
          "systemctl", "service", "firewall-cmd", "ufw", "iptables"}

\* what opening a release file gives: its text, or the exception of open()
\* or read()
ReleaseFiles == {"FileNotFoundError", "PermissionError", "UnicodeDecodeError",
                 "ID=ubuntu VERSION_ID=22.04", "NAME=Linux",
                 "CentOS Linux release 7.9", "Fedora release", "Linux"}

\* platform.linux_distribution()[0]: the name it reports, or the
\* AttributeError of an interpreter that no longer has the function
Platforms == {"AttributeError", "", "Ubuntu"}

\* a machine: whether `which` itself can be run, the binaries `which` finds,
\* the two release files, and the
\* interpreter's platform module
Hosts == [which : BOOLEAN, tools : SUBSET Tools,
          os_release : ReleaseFiles, redhat_release : ReleaseFiles,
          platform : Platforms]

\* DistroAdapter._command_exists: subprocess.run(['which', command],
\* check=True) with only CalledProcessError caught
_command_exists(h, command) ==
    IF ~h.which THEN "FileNotFoundError"
    ELSE IF command \in h.tools THEN "True" ELSE "False"

Raised(e) == [raised |-> e, cmd |-> << >>, need_sudo |-> FALSE]

-----------------------------------------------------------------------------
(* DistroAdapter: detection of the distribution and the package manager *)

OsRelease     == "/etc/os-release"
RedhatRelease == "/etc/redhat-release"

\* what can be probed: the release files and, through `which`, each tool
Probe == Tools \cup {OsRelease, RedhatRelease}

\* open() raised an exception that the detection catches
Unopened(content) == content \in {"FileNotFoundError", "PermissionError"}

\* the value of the first line that starts with "ID=", if any
id_line(content) ==
    IF content = "ID=ubuntu VERSION_ID=22.04" THEN "ubuntu" ELSE NoneStr

\* the value of the first line that starts with "VERSION_ID=", if any
version_id_line(content) ==
    IF content = "ID=ubuntu VERSION_ID=22.04" THEN "22.04" ELSE NoneStr

\* the distribution named in the lower-cased text, if any
distro_in(content) ==
    CASE content = "CentOS Linux release 7.9" -> "centos"
      [] content = "Fedora release"           -> "fedora"
      [] OTHER                                -> NoneStr

\* re.search(r'(\d+\.?\d*)', content).group(1), if it matches
first_number(content) ==
    CASE content = "CentOS Linux release 7.9"   -> "7.9"
      [] content = "ID=ubuntu VERSION_ID=22.04" -> "22.04"
      [] OTHER                                  -> NoneStr

\* the branch of _detect_distro over platform.linux_distribution()[0]
platform_distro(name) == IF name = "Ubuntu" THEN "ubuntu" ELSE NoneStr

\* what a detection step gives: the value (or the exception that escapes it)
\* and the probes it performed, in order
Detected(v, seq)   == [raised |-> "", value |-> v, probed |-> seq]
Escaped(exc, seq)  == [raised |-> exc, value |-> NoneStr, probed |-> seq]

\* DistroAdapter._detect_distro
_detect_distro(h) ==
    CASE h.os_release = "UnicodeDecodeError" ->
             Escaped("UnicodeDecodeError", <<OsRelease>>)
      [] ~Unopened(h.os_release) /\ id_line(h.os_release) # NoneStr ->
             Detected(id_line(h.os_release), <<OsRelease>>)
      [] h.redhat_release = "UnicodeDecodeError" ->
             Escaped("UnicodeDecodeError", <<OsRelease, RedhatRelease>>)
      [] ~Unopened(h.redhat_release) /\ distro_in(h.redhat_release) # NoneStr ->
             Detected(distro_in(h.redhat_release), <<OsRelease, RedhatRelease>>)
      [] h.platform # "AttributeError" /\ platform_distro(h.platform) # NoneStr ->
             Detected(platform_distro(h.platform), <<OsRelease, RedhatRelease>>)
      [] OTHER -> Detected("unknown", <<OsRelease, RedhatRelease>>)

\* DistroAdapter._detect_distro_version
_detect_distro_version(h) ==
    CASE h.os_release = "UnicodeDecodeError" ->
             Escaped("UnicodeDecodeError", <<OsRelease>>)
      [] ~Unopened(h.os_release) /\ version_id_line(h.os_release) # NoneStr ->
             Detected(version_id_line(h.os_release), <<OsRelease>>)
      [] h.redhat_release = "UnicodeDecodeError" ->
             Escaped("UnicodeDecodeError", <<OsRelease, RedhatRelease>>)
      [] ~Unopened(h.redhat_release) /\ first_number(h.redhat_release) # NoneStr ->
             Detected(first_number(h.redhat_release), <<OsRelease, RedhatRelease>>)
      [] OTHER -> Detected("unknown", <<OsRelease, RedhatRelease>>)

\* the order in which _detect_package_manager asks for the managers
ManagerOrder == <<"dnf", "yum", "apt", "apt-get", "zypper", "pacman">>

\* the if/elif chain of _detect_package_manager from its i-th test on
RECURSIVE detect_from(_, _, _)
detect_from(h, i, seq) ==
    IF i > Len(ManagerOrder) THEN Detected("unknown", seq)
    ELSE LET found == _command_exists(h, ManagerOrder[i])
             asked == Append(seq, ManagerOrder[i])
         IN  CASE found = "True"  -> Detected(ManagerOrder[i], asked)
               [] found = "False" -> detect_from(h, i + 1, asked)
               [] OTHER           -> Escaped(found, asked)

\* DistroAdapter._detect_package_manager
_detect_package_manager(h) == detect_from(h, 1, << >>)

\* DistroAdapter.__init__: the three detections in order; an exception that
\* escapes one of them ends the constructor
DistroAdapter(h) ==
    LET d == _detect_distro(h)
        v == _detect_distro_version(h)
        m == _detect_package_manager(h)
    IN  CASE d.raised # "" ->
                 [raised |-> d.raised, distro_id |-> NoneStr,
                  distro_version |-> NoneStr, package_manager |-> NoneStr,
                  probed |-> d.probed]
          [] v.raised # "" ->
                 [raised |-> v.raised, distro_id |-> d.value,
                  distro_version |-> NoneStr, package_manager |-> NoneStr,
                  probed |-> d.probed \o v.probed]
          [] OTHER ->
                 [raised |-> m.raised, distro_id |-> d.value,
                  distro_version |-> v.value, package_manager |-> m.value,
                  probed |-> d.probed \o v.probed \o m.probed]

\* the counters after the probes of seq
counted(count, seq) ==
    [p \in Probe |->
        count[p] + Cardinality({i \in 1..Len(seq) : seq[i] = p})]

\* the existence checks one call of get_service_command performs
service_probes(h, kwargs) ==
    CASE DOMAIN kwargs # {} -> << >>
      [] _command_exists(h, "systemctl") = "False" -> <<"systemctl", "service">>
      [] OTHER -> <<"systemctl">>

\* the existence checks one call of get_firewall_command performs
firewall_probes(h) ==
    IF _command_exists(h, "firewall-cmd") = "False"
    THEN <<"firewall-cmd", "ufw">> ELSE <<"firewall-cmd">>

\* the modules whose constructor builds a DistroAdapter of its own, in the
\* order of MODULE_MAP
LoadOrder == <<"system", "service", "package">>
AdapterModules == {LoadOrder[i] : i \in 1..Len(LoadOrder)}

\* the largest count of one probe that the model follows
MaxProbes == 6

NoProbes == [p \in Probe |-> 0]

-----------------------------------------------------------------------------
(* DistroAdapter: the service command table (the definitions in effect: the
   class body defines get_service_command, _get_systemctl_command and
   _get_service_command twice, and the later definition replaces the first) *)

SvcActions   == {"start", "stop", "restart", "status", "enable", "disable",
                 "mask", "unmask", "list"}
ServiceNames == {NoneStr, "", "nginx"}

\* `if service_name: cmd.append(service_name)`
append_service(c, name) == IF truthy(name) THEN Append(c, name) ELSE c

\* _get_systemctl_command whose status branch leaves need_sudo at True
_get_systemctl_command_status_sudo(act, name) ==
    CASE act = "start"   -> Built(append_service(<<"sudo", "systemctl", "start">>, name), TRUE)
      [] act = "stop"    -> Built(append_service(<<"sudo", "systemctl", "stop">>, name), TRUE)
      [] act = "restart" -> Built(append_service(<<"sudo", "systemctl", "restart">>, name), TRUE)
      [] act = "status"  -> Built(append_service(<<"systemctl", "status">>, name), TRUE)
      [] act = "enable"  -> Built(append_service(<<"sudo", "systemctl", "enable">>, name), TRUE)
      [] act = "disable" -> Built(append_service(<<"sudo", "systemctl", "disable">>, name), TRUE)
      [] act = "list"    -> Built(<<"systemctl", "list-units", "--type=service", "--all">>, FALSE)
      [] OTHER           -> ValueError

\* DistroAdapter._get_systemctl_command (lines 476-511)
_get_systemctl_command(act, name) ==
    CASE act = "start"   -> Built(append_service(<<"sudo", "systemctl", "start">>, name), TRUE)
      [] act = "stop"    -> Built(append_service(<<"sudo", "systemctl", "stop">>, name), TRUE)
      [] act = "restart" -> Built(append_service(<<"sudo", "systemctl", "restart">>, name), TRUE)
      [] act = "status"  -> Built(append_service(<<"systemctl", "status">>, name), FALSE)
      [] act = "enable"  -> Built(append_service(<<"sudo", "systemctl", "enable">>, name), TRUE)
      [] act = "disable" -> Built(append_service(<<"sudo", "systemctl", "disable">>, name), TRUE)
      [] act = "list"    -> Built(<<"systemctl", "list-units", "--type=service", "--all">>, FALSE)
      [] OTHER           -> ValueError

\* DistroAdapter._get_service_command (lines 513-535)
_get_service_command(act, name) ==
    CASE act = "start" ->
             Built(IF truthy(name) THEN <<"sudo", "service", name, "start">>
                   ELSE <<"sudo", "service">>, TRUE)
      [] act = "stop" ->
             Built(IF truthy(name) THEN <<"sudo", "service", name, "stop">>
                   ELSE <<"sudo", "service">>, TRUE)
      [] act = "restart" ->
             Built(IF truthy(name) THEN <<"sudo", "service", name, "restart">>
                   ELSE <<"sudo", "service">>, TRUE)
      [] act = "status" ->
             Built(IF truthy(name) THEN <<"service", name, "status">>
                   ELSE <<"service">>, FALSE)
      [] act \in {"enable", "disable"} ->
             Built(<<"sudo", "chkconfig", name, act>>, TRUE)
      [] act = "list" ->
             Built(<<"service", "--status-all">>, FALSE)
      [] OTHER -> ValueError

\* **params as the service handlers forward them
SvcKwargs == PartialFcn({"now"}, {"true", "false"})

\* DistroAdapter.get_service_command(action, service_name=None) (lines
\* 456-474): the signature takes no keyword arguments, so a call that
\* forwards any is a TypeError
get_service_command(h, act, name, kwargs) ==
    CASE DOMAIN kwargs # {} -> Raised("TypeError")
      [] _command_exists(h, "systemctl") \notin {"True", "False"}
             -> Raised(_command_exists(h, "systemctl"))
      [] _command_exists(h, "systemctl") = "True"
             -> _get_systemctl_command(act, name)
      [] _command_exists(h, "service") = "True"
             -> _get_service_command(act, name)
      [] OTHER -> ValueError

-----------------------------------------------------------------------------
(* DistroAdapter: the firewall command table *)

FwActions == {"list", "add", "del", "flush"}
Rules == {NoneStr, "", "port=80/tcp", "service=http", "zone=public", "80/tcp",
          "allow 80/tcp", "-p tcp -j ACCEPT"}

\* `"=" in rule` on the rules of the model
has_equals(r) == r \in {"port=80/tcp", "service=http", "zone=public"}

\* rule.split("=", 1) on the rules of the model that contain "="
split_equals(r) ==
    CASE r = "port=80/tcp"  -> <<"port", "80/tcp">>
      [] r = "service=http" -> <<"service", "http">>
      [] r = "zone=public"  -> <<"zone", "public">>

\* rule.split() on the rules of the model: the whitespace-separated words
split_words(r) ==
    CASE r = "allow 80/tcp"      -> <<"allow", "80/tcp">>
      [] r = "-p tcp -j ACCEPT"  -> <<"-p", "tcp", "-j", "ACCEPT">>
      [] r = ""                  -> << >>
      [] OTHER                   -> <<r>>

\* DistroAdapter._get_firewalld_command
_get_firewalld_command(act, r) ==
    CASE act = "list" -> Built(<<"sudo", "firewall-cmd", "--list-all">>, FALSE)
      [] act \in {"add", "del"} ->
             IF r = NoneStr THEN Raised("TypeError")     \* "=" in None
             ELSE IF has_equals(r)
             THEN LET kv == split_equals(r)
                  IN  CASE kv[1] = "port" ->
                               Built(<<"sudo", "firewall-cmd", "--permanent",
                                       IF act = "add" THEN "--add-port"
                                       ELSE "--remove-port", kv[2]>>, TRUE)
                        [] kv[1] = "service" ->
                               Built(<<"sudo", "firewall-cmd", "--permanent",
                                       IF act = "add" THEN "--add-service"
                                       ELSE "--remove-service", kv[2]>>, TRUE)
                        [] OTHER -> ValueError
             ELSE ValueError
      [] OTHER -> ValueError

\* DistroAdapter._get_ufw_command
_get_ufw_command(act, r) ==
    CASE act = "list" -> Built(<<"sudo", "ufw", "status", "verbose">>, TRUE)
      [] act = "add"  -> Built(<<"sudo", "ufw", r>>, TRUE)
      [] act = "del"  -> Built(<<"sudo", "ufw", "delete", r>>, TRUE)
      [] OTHER        -> ValueError

\* DistroAdapter._get_iptables_command
_get_iptables_command(act, r, table, chain) ==
    CASE act = "list" ->
             Built(<<"sudo", "iptables", "-t", table, "-L", chain, "-n", "-v">>,
                   TRUE)
      [] act = "add" ->
             Built(<<"sudo", "iptables", "-t", table, "-A", chain>>
                   \o (IF truthy(r) THEN split_words(r) ELSE << >>), TRUE)
      [] act = "del" ->
             Built(<<"sudo", "iptables", "-t", table, "-D", chain>>
                   \o (IF truthy(r) THEN split_words(r) ELSE << >>), TRUE)
      [] OTHER -> ValueError

\* DistroAdapter.get_firewall_command, with the default table and chain
get_firewall_command(h, act, r) ==
    CASE _command_exists(h, "firewall-cmd") \notin {"True", "False"}
             -> Raised(_command_exists(h, "firewall-cmd"))
      [] _command_exists(h, "firewall-cmd") = "True"
             -> _get_firewalld_command(act, r)
      [] _command_exists(h, "ufw") = "True"
             -> _get_ufw_command(act, r)
      [] OTHER -> _get_iptables_command(act, r, "filter", "INPUT")

-----------------------------------------------------------------------------
(* BaseModule: running a command *)

\* the texts a child process writes to its standard output
Outputs == {"", "wheel", "NAME  STATE\nnginx  active", "a=1\nb=2",
            "{\"a\": null}", "{\"a\": 1}", "{bad}"}

\* output that is not text in the locale's encoding
Undecodable == "<bytes>"

\* what a child process does: it exits with a code and its output, or the
\* binary cannot be started (kind: the OSError of Popen)
Child(kind, code, out, err) ==
    [kind |-> kind, returncode |-> code, stdout |-> out, stderr |-> err]
ChildOutcomes ==
    {Child("exit", 0, o, "") : o \in Outputs}
    \cup {Child("exit", 0, "wheel", "warning"),
          Child("exit", 0, Undecodable, ""),
          Child("exit", 2, "", "failed"),
          Child("exit", 2, "wheel", "failed"),
          Child("exit", 2, Undecodable, "failed"),
          Child("exit", 3, "", ""),
          Child("FileNotFoundError", 0, "", ""),
          Child("PermissionError", 0, "", "")}

\* ' '.join(command) needs every word to be a str
has_none(command) == \E i \in 1..Len(command) : command[i] = NoneStr

\* what the try block gives: the CompletedProcess, or the exception raised
Ran(exc, code, out, err) ==
    [raised |-> exc, returncode |-> code, stdout |-> out, stderr |-> err]

\* logger.debug(' '.join(command)) followed by subprocess.run(command,
\* check=chk, stdout=PIPE, stderr=PIPE, text=True)
subprocess_run(command, chk, child) ==
    CASE has_none(command)   -> Ran("TypeError", 0, "", "")
      [] command = << >>     -> Ran("IndexError", 0, "", "")
      [] child.kind # "exit" -> Ran(child.kind, 0, "", "")
      \* text=True: communicate() decodes the output before the exit code
      \* is looked at
      [] Undecodable \in {child.stdout, child.stderr} ->
             Ran("UnicodeDecodeError", 0, "", "")
      [] chk /\ child.returncode # 0 ->
             Ran("CalledProcessError", child.returncode, child.stdout,
                 child.stderr)
      [] OTHER -> Ran("", child.returncode, child.stdout, child.stderr)

\* the message of NotFoundResult (a non-empty text that names command[0])
NotFoundMessage == "command not found"

\* the object _run_command_capture returns, by its class
Captured(class, code, out, err) ==
    [t |-> class, returncode |-> code, stdout |-> out, stderr |-> err]

\* BaseModule._run_command_capture: every exception becomes a result object
_run_command_capture(command, chk, child) ==
    LET r == subprocess_run(command, chk, child) IN
    CASE r.raised = "" ->
             Captured("CompletedProcess", r.returncode, r.stdout, r.stderr)
      [] r.raised = "CalledProcessError" ->
             Captured("CalledProcessError", r.returncode, r.stdout, r.stderr)
      [] r.raised = "FileNotFoundError" ->
             Captured("NotFoundResult", 1, "", NotFoundMessage)
      [] OTHER -> Captured("ErrorResult", 1, "", r.raised)

-----------------------------------------------------------------------------
(* TomlOutputMixin: parsing command output *)

\* output.strip() starts with '{' and ends with '}'
looks_json(output) == output \in {"{\"a\": null}", "{\"a\": 1}", "{bad}"}
\* '\t' in output or '  ' in output
looks_table(output) == output = "NAME  STATE\nnginx  active"
\* '\n' in output and '=' in output
looks_keyval(output) == output = "a=1\nb=2"

\* json.loads raises JSONDecodeError
json_fails(output) == output = "{bad}"

\* json.loads on the outputs of the model that are JSON documents
json_loads(output) ==
    CASE output = "{\"a\": null}" -> [k \in {"a"} |-> PyNone]
      [] output = "{\"a\": 1}"    -> [k \in {"a"} |-> PyInt("1")]

\* output.splitlines(), as the text of the list
splitlines(output) ==
    CASE output = ""      -> "[]"
      [] output = "a=1\nb=2" -> "['a=1', 'b=2']"
      [] output = "NAME  STATE\nnginx  active" ->
             "['NAME  STATE', 'nginx  active']"
      [] output = "wheel" -> "['wheel']"
      [] output = "{bad}" -> "['{bad}']"
      [] output = "{\"a\": null}" -> "['{\"a\": null}']"
      [] output = "{\"a\": 1}" -> "['{\"a\": 1}']"

\* TomlOutputMixin._parse_table_output: the first line split on the double
\* space gives the headers, the others the rows
_parse_table_output(output) ==
    IF output = ""
    THEN [k \in {"headers", "rows"} |-> PyList("[]")]
    ELSE [k \in {"headers", "rows"} |->
             IF k = "headers" THEN PyList("['NAME', 'STATE']")
             ELSE PyList("[['nginx', 'active']]")]

\* TomlOutputMixin._parse_keyval_output: one key per line that has "="
_parse_keyval_output(output) ==
    IF output = "a=1\nb=2"
    THEN [k \in {"a", "b"} |-> IF k = "a" THEN PyStr("1") ELSE PyStr("2")]
    ELSE EmptyDict

\* TomlOutputMixin._parse_command_output with format_type = "auto"
_parse_command_output(output) ==
    LET detected == CASE looks_json(output)   -> "json"
                      [] looks_table(output)  -> "table"
                      [] looks_keyval(output) -> "keyval"
                      [] OTHER                -> "list"
        format_type == IF detected = "json" /\ json_fails(output)
                       THEN "list" ELSE detected
    IN  CASE format_type = "json"   -> json_loads(output)
          [] format_type = "table"  -> _parse_table_output(output)
          [] format_type = "keyval" -> _parse_keyval_output(output)
          [] OTHER -> [k \in {"items"} |-> PyList(splitlines(output))]

-----------------------------------------------------------------------------
(* TomlOutputMixin: the envelope and its TOML document *)

\* a TOML value as written: its syntax and its text
TomlToken(kind, text) == [tok |-> kind, text |-> text]

\* the value types TOML can write (it has no null)
dump_value(x) ==
    CASE x.t = "str"  -> TomlToken("string", x.v)
      [] x.t = "int"  -> TomlToken("integer", x.v)
      [] x.t = "bool" -> TomlToken("boolean", x.v)
      [] x.t = "list" -> TomlToken("array", x.v)

\* the value a TOML parser gives for what was written
load_value(tk) ==
    CASE tk.tok = "string"  -> PyStr(tk.text)
      [] tk.tok = "integer" -> PyInt(tk.text)
      [] tk.tok = "boolean" -> [t |-> "bool", v |-> tk.text]
      [] tk.tok = "array"   -> PyList(tk.text)

\* what the toml library may do with a None value: leave the key out, or
\* refuse the document
TomlNone == {"omit", "raise"}

\* the dictionary of an envelope: module, status, and the table `body` with
\* its fields
OutputData(m, st, body, fields) ==
    [module |-> m, status |-> st, body |-> body, fields |-> fields]

NoDocument == [module |-> TomlToken("", ""), status |-> TomlToken("", ""),
               table |-> "", lines |-> EmptyDict]

\* toml.dumps(output_data)
toml_dumps(output_data, lib) ==
    LET written == {k \in DOMAIN output_data.fields :
                        output_data.fields[k] # PyNone}
    IN  IF written # DOMAIN output_data.fields /\ lib = "raise"
        THEN [raised |-> "TypeError", doc |-> NoDocument]
        ELSE [raised |-> "",
              doc |-> [module |-> TomlToken("string", output_data.module),
                       status |-> TomlToken("string", output_data.status),
                       table  |-> output_data.body,
                       lines  |-> [k \in written |->
                                     dump_value(output_data.fields[k])]]]

\* toml.loads(document)
toml_loads(doc) ==
    OutputData(load_value(doc.module).v, load_value(doc.status).v, doc.table,
               [k \in DOMAIN doc.lines |-> load_value(doc.lines[k])])

\* a serialized envelope, where it went, and whether it arrived there
Envelope(dest, doc, delivered) ==
    [dest |-> dest, doc |-> doc, delivered |-> delivered]

\* a line on the terminal: the stream, what kind of text it is, the text
Printed(stream, kind, text) == [stream |-> stream, kind |-> kind, text |-> text]

\* logger.error: no handler is configured, so the message goes to stderr
Logged(text) == Printed("stderr", "log", text)

\* what an output call gives: its status code, the envelopes serialized and
\* the lines printed
Printing(code, out, lines) == [ret |-> code, out |-> out, printed |-> lines]

\* the branch `if hasattr(self, 'output_file') and self.output_file:` with
\* _write_to_file, which reports a failed write and returns normally
deliver(doc, ofile, wr) ==
    IF truthy(ofile) THEN Envelope(ofile, doc, wr)
    ELSE Envelope("stdout", doc, TRUE)

\* what that branch prints: the envelope itself, or _write_to_file's notice
\* of the saved file, or its report of the failed write
delivery_lines(doc, ofile, wr) ==
    CASE ~truthy(ofile) -> <<Printed("stdout", "envelope", doc.status.text)>>
      [] wr             -> <<Printed("stdout", "notice", ofile)>>
      [] OTHER          -> <<Logged("write failed"),
                             Printed("stdout", "diagnostic", ofile)>>

\* _output_toml that reports a failed write of the file in its status
_output_toml_write_escalated(m, data, ofile, wr, lib) ==
    LET dumped == toml_dumps(OutputData(m, "success", "data", data), lib) IN
    IF dumped.raised # "" THEN Printing(1, << >>, <<Logged("TOML output failed")>>)
    ELSE Printing(IF truthy(ofile) /\ ~wr THEN 1 ELSE 0,
                  <<deliver(dumped.doc, ofile, wr)>>,
                  delivery_lines(dumped.doc, ofile, wr))

\* TomlOutputMixin._output_toml for the dict data
_output_toml(m, data, ofile, wr, lib) ==
    LET dumped == toml_dumps(OutputData(m, "success", "data", data), lib) IN
    IF dumped.raised # "" THEN Printing(1, << >>, <<Logged("TOML output failed")>>)
    ELSE Printing(0, <<deliver(dumped.doc, ofile, wr)>>,
                  delivery_lines(dumped.doc, ofile, wr))

\* TomlOutputMixin._output_error
_output_error(m, message, code, ofile, wr, lib) ==
    LET error == [k \in {"message", "code"} |->
                     IF k = "message" THEN PyStr(message)
                     ELSE PyInt(ToString(code))]
        dumped == toml_dumps(OutputData(m, "error", "error", error), lib)
    IN  IF dumped.raised # ""
        THEN Printing(code, << >>, <<Logged("error output failed")>>)
        ELSE Printing(code, <<deliver(dumped.doc, ofile, wr)>>,
                      delivery_lines(dumped.doc, ofile, wr))

\* the object a module is for its output: name, format, file, and the
\* world's answers to a write and to a None value
Self(m, fmt, ofile, wr, lib) ==
    [name |-> m, output_format |-> fmt, output_file |-> ofile,
     writable |-> wr, toml_none |-> lib]

\* BaseModule._run_command with output_format = None
_run_command(self, command, chk, child) ==
    LET r == subprocess_run(command, chk, child)
        toml == self.output_format = "toml"
        error(message, code) ==
            _output_error(self.name, message, code, self.output_file,
                          self.writable, self.toml_none)
    IN  CASE r.raised = "" ->
                 IF toml
                 THEN IF r.returncode = 0
                      THEN _output_toml(self.name,
                                        _parse_command_output(r.stdout),
                                        self.output_file, self.writable,
                                        self.toml_none)
                      ELSE error("command failed", r.returncode)
                 ELSE Printing(r.returncode, << >>,
                          (IF r.stdout # ""
                           THEN <<Printed("stdout", "stdout", r.stdout)>>
                           ELSE << >>)
                          \o (IF r.stderr # "" /\ r.returncode # 0
                              THEN <<Printed("stdout", "stderr", r.stderr)>>
                              ELSE << >>))
          [] r.raised = "CalledProcessError" ->
                 IF toml THEN error("command failed", r.returncode)
                 ELSE Printing(r.returncode, << >>,
                               <<Printed("stdout", "diagnostic",
                                         "command failed")>>)
          [] r.raised = "FileNotFoundError" ->
                 IF toml THEN error(NotFoundMessage, 1)
                 ELSE Printing(1, << >>,
                               <<Printed("stdout", "diagnostic",
                                         NotFoundMessage)>>)
          [] OTHER ->
                 IF toml THEN error("error while running the command", 1)
                 ELSE Printing(1, << >>,
                               <<Printed("stdout", "diagnostic",
                                         "error while running the command")>>)

-----------------------------------------------------------------------------
(* GroupModule._handle_add and BaseModule.execute *)

\* the call-site params of `group add`
GroupParams ==
    {ps \in PartialFcn({"gid", "user", "chroot", "out"},
                       {"", "100", "alice", "alice,bob", "/srv/jail",
                        "/tmp/out.toml", "/tmp/out"}) :
        /\ "gid" \in DOMAIN ps => ps["gid"] = "100"
        /\ "user" \in DOMAIN ps => ps["user"] \in {"", "alice", "alice,bob"}
        /\ "chroot" \in DOMAIN ps => ps["chroot"] = "/srv/jail"
        /\ "out" \in DOMAIN ps => ps["out"] \in {"", "/tmp/out.toml", "/tmp/out"}}

\* the users of params["user"].split(","), stripped, without the empty ones
split_users(text) ==
    CASE text = "alice"     -> <<"alice">>
      [] text = "alice,bob" -> <<"alice", "bob">>
      [] OTHER              -> << >>

\* the envelopes of a sequence of output results, in order
RECURSIVE envelopes(_)
envelopes(results) ==
    IF results = << >> THEN << >>
    ELSE Head(results).out \o envelopes(Tail(results))

\* the lines a sequence of output results printed, in order
RECURSIVE lines(_)
lines(results) ==
    IF results = << >> THEN << >>
    ELSE Head(results).printed \o lines(Tail(results))

\* `if user_result != 0: print(warning)` after a chained command
warned(res, text) ==
    IF res.ret # 0
    THEN [res EXCEPT !.printed = @ \o <<Printed("stdout", "warning", text)>>]
    ELSE res

\* what a handler gives: its status, the envelopes, the lines printed and
\* the argvs it started, in order
Handled(code, out, printed_, ran) ==
    [ret |-> code, out |-> out, printed |-> printed_, ran |-> ran]

\* GroupModule._handle_add that returns the status of the last command run
_handle_add_last_status(self, groupname, ps, children) ==
    LET is_system == /\ "system" \in DOMAIN ps
                     /\ lower(ps["system"]) \in {"true", "yes", "1"}
        has_gid == "gid" \in DOMAIN ps
        groupadd == IF is_system THEN <<"sudo", "groupadd", "-r">>
                    ELSE <<"sudo", "groupadd">>
        command == (IF has_gid THEN groupadd \o <<"-g", ps["gid"]>>
                    ELSE groupadd) \o <<groupname>>
        check_gid_cmd == <<"getent", "group", ps["gid"]>>
        checked == IF has_gid THEN 1 ELSE 0
        check_result == _run_command_capture(check_gid_cmd, FALSE, children[1])
        gid_lines == IF has_gid /\ check_result.returncode = 0
                        /\ check_result.stdout # ""
                     THEN <<Printed("stdout", "warning", "GID in use")>>
                     ELSE << >>
        result_ == _run_command(self, command, TRUE, children[checked + 1])
        users == IF result_.ret = 0 /\ "user" \in DOMAIN ps
                 THEN split_users(ps["user"]) ELSE << >>
        usermod_cmd(i) == <<"sudo", "usermod", "-aG", groupname, users[i]>>
        usermods == [i \in 1..Len(users) |->
                        warned(_run_command(self, usermod_cmd(i), FALSE,
                                            children[checked + 1 + i]),
                               "cannot add the user to the group")]
        ran == checked + 1 + Len(users)
        chroot == IF is_system
                  THEN <<"sudo", "chroot", ps["chroot"], "groupadd", "-r">>
                  ELSE <<"sudo", "chroot", ps["chroot"], "groupadd">>
        chroot_cmd == (IF has_gid THEN chroot \o <<"-g", ps["gid"]>>
                       ELSE chroot) \o <<groupname>>
        chrooted == IF result_.ret = 0 /\ "chroot" \in DOMAIN ps
                    THEN <<warned(_run_command(self, chroot_cmd, FALSE,
                                               children[ran + 1]),
                                  "cannot create the group in the chroot")>>
                    ELSE << >>
        all == <<result_>> \o usermods \o chrooted
    IN  Handled(all[Len(all)].ret,
                envelopes(all),
                gid_lines \o lines(all),
                (IF has_gid THEN <<check_gid_cmd>> ELSE << >>)
                \o <<command>>
                \o [i \in 1..Len(users) |-> usermod_cmd(i)]
                \o (IF chrooted # << >> THEN <<chroot_cmd>> ELSE << >>))

\* GroupModule._handle_add; children are the outcomes of the processes it
\* starts, in order
_handle_add(self, groupname, ps, children) ==
    LET is_system == /\ "system" \in DOMAIN ps
                     /\ lower(ps["system"]) \in {"true", "yes", "1"}
        has_gid == "gid" \in DOMAIN ps
        groupadd == IF is_system THEN <<"sudo", "groupadd", "-r">>
                    ELSE <<"sudo", "groupadd">>
        command == (IF has_gid THEN groupadd \o <<"-g", ps["gid"]>>
                    ELSE groupadd) \o <<groupname>>
        \* the getent check of the GID is captured, not emitted
        check_gid_cmd == <<"getent", "group", ps["gid"]>>
        checked == IF has_gid THEN 1 ELSE 0
        check_result == _run_command_capture(check_gid_cmd, FALSE, children[1])
        gid_lines == IF has_gid /\ check_result.returncode = 0
                        /\ check_result.stdout # ""
                     THEN <<Printed("stdout", "warning", "GID in use")>>
                     ELSE << >>
        result_ == _run_command(self, command, TRUE, children[checked + 1])
        users == IF result_.ret = 0 /\ "user" \in DOMAIN ps
                 THEN split_users(ps["user"]) ELSE << >>
        usermod_cmd(i) == <<"sudo", "usermod", "-aG", groupname, users[i]>>
        usermods == [i \in 1..Len(users) |->
                        warned(_run_command(self, usermod_cmd(i), FALSE,
                                            children[checked + 1 + i]),
                               "cannot add the user to the group")]
        ran == checked + 1 + Len(users)
        chroot == IF is_system
                  THEN <<"sudo", "chroot", ps["chroot"], "groupadd", "-r">>
                  ELSE <<"sudo", "chroot", ps["chroot"], "groupadd">>
        chroot_cmd == (IF has_gid THEN chroot \o <<"-g", ps["gid"]>>
                       ELSE chroot) \o <<groupname>>
        chrooted == IF result_.ret = 0 /\ "chroot" \in DOMAIN ps
                    THEN <<warned(_run_command(self, chroot_cmd, FALSE,
                                               children[ran + 1]),
                                  "cannot create the group in the chroot")>>
                    ELSE << >>
        all == <<result_>> \o usermods \o chrooted
    IN  Handled(result_.ret,
                envelopes(all),
                gid_lines \o lines(all),
                (IF has_gid THEN <<check_gid_cmd>> ELSE << >>)
                \o <<command>>
                \o [i \in 1..Len(users) |-> usermod_cmd(i)]
                \o (IF chrooted # << >> THEN <<chroot_cmd>> ELSE << >>))

\* the output file execute derives from the out parameter
out_file(out_param) ==
    IF out_param = "/tmp/out.toml" THEN out_param
    ELSE "/tmp/out/usc-<timestamp>.toml"

\* os.path.dirname of the output files above
dirname(file_path) ==
    IF file_path = "/tmp/out.toml" THEN "/tmp" ELSE "/tmp/out"

\* the directories that exist before the program runs
ExistingDirs == {"/tmp"}

\* GroupModule.get_actions
GroupActions == {"add", "del", "mod", "list", "info"}

\* the actions execute is called with: one with a handler modelled here and
\* one the module does not know
CalledActions == {"add", "bogus"}

\* what execute gives: the status code, the envelopes, the lines printed,
\* the argvs started, self.output_file afterwards, the directories
\* _set_output_file made, and whether a handler was called
Executed(code, out, printed_, ran, ofile, made, handled) ==
    [ret |-> code, out |-> out, printed |-> printed_, ran |-> ran,
     output_file |-> ofile, made |-> made, handled |-> handled]

\* BaseModule.execute(act, groupname, ps) of the group module
execute(self, act, groupname, ps, children) ==
    IF "out" \in DOMAIN ps /\ ps["out"] = ""
    THEN Executed(1, << >>,
                  <<Printed("stdout", "diagnostic", "out must not be empty")>>,
                  << >>, self.output_file, {}, FALSE)
    ELSE LET ofile == IF "out" \in DOMAIN ps THEN out_file(ps["out"])
                      ELSE self.output_file
             \* _set_output_file runs before the action is looked up
             made == IF "out" \in DOMAIN ps
                     THEN {dirname(ofile)} \ ExistingDirs ELSE {}
             handled == _handle_add([self EXCEPT !.output_file = ofile],
                                    groupname, ps, children)
         IN  IF act \notin GroupActions
             THEN Executed(1, << >>,
                           <<Printed("stdout", "diagnostic", "unknown action"),
                             Printed("stdout", "help", self.name)>>,
                           << >>, ofile, made, FALSE)
             ELSE Executed(handled.ret, handled.out, handled.printed,
                           handled.ran, ofile, made, TRUE)

-----------------------------------------------------------------------------
(* ServiceModule: the action handlers *)

\* the call-site params of a service command, as execute hands them to the
\* handler
ServiceParams ==
    {ps \in PartialFcn({"state", "now", "out"},
                       {"running", "true", "false", "/tmp/out.toml"}) :
        /\ Cardinality(DOMAIN ps) <= 1
        /\ "state" \in DOMAIN ps => ps["state"] = "running"
        /\ "now" \in DOMAIN ps => ps["now"] \in {"true", "false"}
        /\ "out" \in DOMAIN ps => ps["out"] = "/tmp/out.toml"}

\* what a service handler gives: the exception that left it ("" when it
\* returned), its status, envelopes, printed lines and started argvs
Left(exc) ==
    [escaped |-> exc, ret |-> 0, out |-> << >>, printed |-> << >>,
     ran |-> << >>]
Returned(res, ran) ==
    [escaped |-> "", ret |-> res.ret, out |-> res.out,
     printed |-> res.printed, ran |-> ran]

\* ServiceModule._handle_<act>(name, ps): the adapter is called with the
\* params forwarded as keywords; only ValueError is caught
_handle_service(self, h, act, name, ps, children) ==
    LET target == IF act = "list" THEN NoneStr ELSE name
        built == get_service_command(h, act, target, ps)
        error == _output_error(self.name, "unsupported service manager", 1,
                               self.output_file, self.writable, self.toml_none)
        result_ == _run_command(self, built.cmd, TRUE, children[1])
        now == /\ act \in {"enable", "disable"}
               /\ result_.ret = 0
               /\ "now" \in DOMAIN ps
               /\ lower(ps["now"]) \in {"true", "yes", "1"}
        again == get_service_command(h, IF act = "enable" THEN "start"
                                        ELSE "stop", name, ps)
        second == _run_command(self, again.cmd, TRUE, children[2])
    IN  CASE built.raised = "ValueError" -> Returned(error, << >>)
          [] built.raised # "" -> Left(built.raised)
          [] ~now -> Returned(result_, <<built.cmd>>)
          [] again.raised = "ValueError" ->
                 Returned(Printing(1, result_.out \o error.out,
                                   result_.printed \o error.printed),
                          <<built.cmd>>)
          [] again.raised # "" -> Left(again.raised)
          [] OTHER ->
                 Returned(Printing(second.ret, result_.out \o second.out,
                                   result_.printed \o second.printed),
                          <<built.cmd, again.cmd>>)

-----------------------------------------------------------------------------
(* FileModule: the handlers that resolve boolean parameters *)

Paths == {"/tmp/a"}
Dests == {"/tmp/d", "/tmp/d/"}

\* dest.rstrip("/") on the destinations of the model
rstrip_slash(d) == IF d = "/tmp/d/" THEN "/tmp/d" ELSE d

\* the exception of the first resolution that raised, "" if none did
first_raised(vals) ==
    IF \E i \in DOMAIN vals : vals[i].t = "raise"
    THEN LET i == CHOOSE j \in DOMAIN vals :
                      /\ vals[j].t = "raise"
                      /\ \A h \in DOMAIN vals : vals[h].t = "raise" => j <= h
         IN  vals[i].v
    ELSE ""

\* FileModule._handle_del: the command handed to _run_command
_handle_del(path, ps, cfg) ==
    LET recursive == _get_param_value("recursive", "del", ps, cfg, PyStr("false"))
        force     == _get_param_value("force", "del", ps, cfg, PyStr("false"))
        raised    == first_raised(<<recursive, force>>)
    IN  IF raised # ""
        THEN [raised |-> raised, cmd |-> << >>, need_sudo |-> FALSE]
        ELSE Built(<<"rm">>
                   \o (IF _convert_bool(recursive, FALSE) THEN <<"-r">> ELSE << >>)
                   \o (IF _convert_bool(force, FALSE) THEN <<"-f">> ELSE << >>)
                   \o <<path>>, FALSE)

\* FileModule._move_single_item: the command handed to _run_command
_move_single_item(source, dest, ps, cfg) ==
    LET force   == _get_bool_param_value("force", "move", ps, cfg, PyStr("false"))
        update  == _get_bool_param_value("update", "move", ps, cfg, PyStr("false"))
        verbose == _get_bool_param_value("verbose", "move", ps, cfg, PyStr("true"))
        raised  == first_raised(<<force, update, verbose>>)
        target  == IF dest = "/tmp/d/" THEN rstrip_slash(dest) ELSE dest
    IN  IF raised # ""
        THEN [raised |-> raised, cmd |-> << >>, need_sudo |-> FALSE]
        ELSE Built(<<"mv">>
                   \o (IF _convert_bool(force, FALSE) THEN <<"-f">> ELSE <<"-i">>)
                   \o (IF _convert_bool(update, FALSE) THEN <<"-u">> ELSE << >>)
                   \o (IF _convert_bool(verbose, FALSE) THEN <<"-v">> ELSE << >>)
                   \o <<source, target>>, FALSE)

-----------------------------------------------------------------------------
(* FileModule._handle_copy *)

\* the sources of a copy: a path, a path with a trailing slash, the files
\* of a directory, a relative name
CopySources == {"/tmp/a", "/tmp/a/", "/tmp/a/*", "a"}

\* os.path.dirname of the source without its "/*" or trailing "/"
source_parent(src) == IF src = "a" THEN "" ELSE "/tmp"
\* os.path.basename of the same
source_base(src) == "a"

\* at most this many numbered copies of the source exist already
MaxTaken == 2

\* the `while True` loop over seq: the first number from 1 that no existing
\* copy has
RECURSIVE first_free(_, _)
first_free(exists, seq) ==
    IF seq \notin exists THEN seq ELSE first_free(exists, seq + 1)

\* the destination: params.get("dest", "") or the numbered sibling of the
\* source, always ending in "/"
copy_dest(src, ps, exists) ==
    LET given == IF "dest" \in DOMAIN ps THEN ps["dest"] ELSE ""
        dest_dir == IF source_parent(src) # "" THEN source_parent(src) ELSE "."
        dest_path == dest_dir \o "/" \o source_base(src) \o "_"
                         \o ToString(first_free(exists, 1))
        dest == IF given = "" THEN dest_path ELSE given
    IN  IF dest = "/tmp/d/" THEN dest ELSE dest \o "/"

\* the preserve argument archive mode adds
ArchivePreserve == "--preserve=mode,ownership,timestamps,links,xattr,context,all"

\* the preserve items of the params, mapped to cp's names and joined
preserve_items(text) ==
    CASE text = "mode"       -> "mode"
      [] text = "owner,time" -> "ownership,timestamps"
      [] OTHER               -> ""

\* the recursive step that leaves the --recursive of archive mode in place
recursive_flag_kept(command, archive, recursive) ==
    IF archive THEN command
    ELSE IF recursive THEN Append(command, "--recursive") ELSE command

\* lines 134-145: archive mode has added --recursive and recursive:false
\* takes it off again; without archive mode recursive adds it
recursive_flag(command, archive, recursive) ==
    IF archive
    THEN IF ~recursive /\ command[Len(command)] = "--recursive"
         THEN SubSeq(command, 1, Len(command) - 1)
         ELSE command
    ELSE IF recursive THEN Append(command, "--recursive") ELSE command

\* the command without the items that start with "--preserve="
RECURSIVE without_preserve(_)
without_preserve(command) ==
    IF command = << >> THEN << >>
    ELSE IF Head(command) = ArchivePreserve
         THEN without_preserve(Tail(command))
         ELSE <<Head(command)>> \o without_preserve(Tail(command))

\* FileModule._handle_copy: the command handed to _run_command
_handle_copy(src, ps, cfg, exists) ==
    LET dest      == copy_dest(src, ps, exists)
        archive_  == _get_param_value("archive", "copy", ps, cfg, PyStr("true"))
        recursive_ == _get_param_value("recursive", "copy", ps, cfg, PyStr("true"))
        verbose   == _get_param_value("verbose", "copy", ps, cfg, PyStr("true"))
        update    == _get_param_value("update", "copy", ps, cfg, PyStr("false"))
        force     == _get_param_value("force", "copy", ps, cfg, PyStr("false"))
        raised    == first_raised(<<archive_, recursive_, verbose, update, force>>)
        archive   == _convert_bool(archive_, FALSE)
        recursive == _convert_bool(recursive_, FALSE)
        c1 == <<"cp">> \o (IF archive
                           THEN <<"--no-dereference", ArchivePreserve,
                                  "--recursive">>
                           ELSE << >>)
        c2 == recursive_flag(c1, archive, recursive)
        c3 == c2 \o (IF _convert_bool(verbose, FALSE) THEN <<"--verbose">>
                     ELSE << >>)
        c4 == c3 \o (IF _convert_bool(update, FALSE) THEN <<"--update">>
                     ELSE << >>)
        items == IF "preserve" \in DOMAIN ps THEN preserve_items(ps["preserve"])
                 ELSE ""
        c5 == IF items = "" THEN c4
              ELSE (IF archive THEN without_preserve(c4) ELSE c4)
                   \o <<"--preserve=" \o items>>
        c6 == c5 \o (IF _convert_bool(force, FALSE) THEN <<"--force">>
                     ELSE <<"--interactive">>)
    IN  IF raised # "" THEN Raised(raised)
        ELSE Built(c6 \o <<src, dest>>, FALSE)

-----------------------------------------------------------------------------
(* The state machine: a module is constructed, then its methods are called *)

\* Python values handed to _convert_bool
PyValues == {PyStr(s) : s \in ParamStrs}
            \cup {PyBool(TRUE), PyBool(FALSE), PyInt("0"), PyInt("5"), PyNone,
                  PyList("force"), PyDict("{nested}")}

NoConfig == [has_default |-> FALSE,
             dflt |-> [t |-> "dict", keys |-> EmptyDict, sections |-> EmptyDict,
                       v |-> "{default}"]]

\* BaseModule.__init__ (_load_config) and DistroAdapter.__init__: the
\* module is constructed and no method has been called
Constructed ==
    /\ config \in Configs
    /\ package_manager \in PackageManagers
    /\ op = "init"
    /\ value = PyNone /\ default = FALSE /\ result = PyNone
    /\ cmd = << >> /\ need_sudo = FALSE

\* a caller resolves self.key for self.action: the arguments are those of
\* the state
GetParamValue ==
    /\ key \in ParamKeys
    /\ op' = "_get_param_value"
    /\ result' = _get_param_value(key, action, params, config, fallback)
    /\ value' = PyNone /\ default' = FALSE /\ cmd' = << >>
    /\ UNCHANGED <<config, package_manager, key, action, params, fallback,
                   package_name, need_sudo>>
    /\ UNCHANGED <<hostVars, probeVars, execVars, ioVars>>

GetBoolParamValue ==
    /\ key \in ParamKeys
    /\ op' = "_get_bool_param_value"
    /\ result' = _get_bool_param_value(key, action, params, config, fallback)
    /\ value' = PyNone /\ default' = FALSE /\ cmd' = << >>
    /\ UNCHANGED <<config, package_manager, key, action, params, fallback,
                   package_name, need_sudo>>
    /\ UNCHANGED <<hostVars, probeVars, execVars, ioVars>>

\* self._convert_bool(self._get_param_value(...)): the value resolved is
\* converted, with either default
ConvertBool ==
    /\ op \in {"_get_param_value", "_get_bool_param_value"}
    /\ result.t # "raise"
    /\ \E dflt \in BOOLEAN :
        /\ op' = "_convert_bool"
        /\ value' = result /\ default' = dflt
        /\ result' = PyBool(_convert_bool(result, dflt))
    /\ UNCHANGED <<config, package_manager, key, action, params, fallback,
                   package_name, cmd, need_sudo>>
    /\ UNCHANGED <<hostVars, probeVars, execVars, ioVars>>

\* execute("del", path, params) dispatches to _handle_del
HandleDel ==
    \E path \in Paths :
        LET built == _handle_del(path, params, config) IN
        /\ action = "del"
        /\ op' = "_handle_del"
        /\ cmd' = built.cmd
        /\ result' = IF built.raised # "" THEN PyRaise(built.raised) ELSE PyNone
        /\ value' = PyNone /\ default' = FALSE
        /\ UNCHANGED <<config, package_manager, key, action, params, fallback,
                       package_name, need_sudo>>
        /\ UNCHANGED <<hostVars, probeVars, execVars, ioVars>>

\* execute("move", source, params) reaches _move_single_item
MoveSingleItem ==
    \E source \in Paths, dest \in Dests :
        LET built == _move_single_item(source, dest, params, config) IN
        /\ action = "move"
        /\ op' = "_move_single_item"
        /\ cmd' = built.cmd
        /\ result' = IF built.raised # "" THEN PyRaise(built.raised) ELSE PyNone
        /\ value' = PyNone /\ default' = FALSE
        /\ UNCHANGED <<config, package_manager, key, action, params, fallback,
                       package_name, need_sudo>>
        /\ UNCHANGED <<hostVars, probeVars, execVars, ioVars>>

GetPackageCommand ==
    LET built == get_package_command(package_manager, action, package_name,
                                     params) IN
    /\ action \in PkgActions
    /\ "package" \in constructed
    /\ op' = "get_package_command"
    /\ cmd' = built.cmd /\ need_sudo' = built.need_sudo
    /\ result' = IF built.raised # "" THEN PyRaise(built.raised) ELSE PyNone
    /\ UNCHANGED <<config, package_manager, key, action, params, fallback,
                   value, default, package_name>>
    /\ UNCHANGED <<hostVars, probeVars, execVars, ioVars>>

\* a caller asks the adapter for a service command
GetServiceCommand ==
    LET built == get_service_command(host, action, service_name, params) IN
    /\ action \in SvcActions
    /\ constructed \cap {"service", "system"} # {}
    /\ probes' = counted(probes, service_probes(host, params))
    /\ \A p \in Probe : probes'[p] <= MaxProbes
    /\ op' = "get_service_command"
    /\ cmd' = built.cmd /\ need_sudo' = built.need_sudo
    /\ result' = IF built.raised # "" THEN PyRaise(built.raised) ELSE PyNone
    /\ UNCHANGED <<config, package_manager, key, action, params, fallback,
                   value, default, package_name>>
    /\ UNCHANGED hostVars
    /\ UNCHANGED <<constructed, distro_id, distro_version, execVars, ioVars>>

\* a caller asks the adapter for a firewall command
GetFirewallCommand ==
    LET built == get_firewall_command(host, action, rule) IN
    /\ action \in FwActions
    /\ constructed # {}
    /\ probes' = counted(probes, firewall_probes(host))
    /\ \A p \in Probe : probes'[p] <= MaxProbes
    /\ op' = "get_firewall_command"
    /\ cmd' = built.cmd /\ need_sudo' = built.need_sudo
    /\ result' = IF built.raised # "" THEN PyRaise(built.raised) ELSE PyNone
    /\ UNCHANGED <<config, package_manager, key, action, params, fallback,
                   value, default, package_name>>
    /\ UNCHANGED hostVars
    /\ UNCHANGED <<constructed, distro_id, distro_version, execVars, ioVars>>

\* USC._load_modules constructs module m, whose __init__ runs
\* DistroAdapter(); an exception that escapes it ends the process
ConstructModule(m) ==
    LET a == DistroAdapter(host) IN
    /\ Cardinality(constructed) < Len(LoadOrder)
    /\ m = LoadOrder[Cardinality(constructed) + 1]
    /\ op # "abort"
    /\ probes' = counted(probes, a.probed)
    /\ \A p \in Probe : probes'[p] <= MaxProbes
    /\ IF a.raised # ""
       THEN /\ op' = "abort" /\ result' = PyRaise(a.raised)
            /\ UNCHANGED <<constructed, distro_id, distro_version,
                           package_manager>>
       ELSE /\ op' = "DistroAdapter" /\ result' = PyNone
            /\ constructed' = constructed \cup {m}
            /\ distro_id' = a.distro_id
            /\ distro_version' = a.distro_version
            /\ package_manager' = a.package_manager
    /\ cmd' = << >> /\ need_sudo' = FALSE
    /\ UNCHANGED <<config, key, action, params, fallback, value, default,
                   package_name>>
    /\ UNCHANGED <<hostVars, execVars, ioVars>>

\* every module is loaded and no probe has been counted yet
Loaded == /\ constructed = AdapterModules /\ probes = NoProbes
          /\ distro_id = "unknown" /\ distro_version = "unknown"

\* nothing has been captured
NoCapture == Captured("None", 0, "", "")

\* a handler captures the outcome of self.cmd; the child is the first of
\* procs
RunCommandCapture ==
    /\ procs # << >> /\ op = "init"
    /\ op' = "_run_command_capture"
    /\ captured' = _run_command_capture(cmd, check, procs[1])
    /\ UNCHANGED <<config, package_manager, key, action, params, fallback,
                   value, default, result, package_name, cmd, need_sudo>>
    /\ UNCHANGED <<hostVars, probeVars>>
    /\ UNCHANGED <<procs, check, module_name, output_format, output_file,
                   writable, toml_none, emitted, returned>>
    /\ runs' = Append(runs, cmd)
    /\ UNCHANGED <<printed, dirs, copy_source, taken, calls>>

\* the module object of the state
ThisModule == Self(module_name, output_format, output_file, writable, toml_none)

\* a handler runs self.cmd through _run_command; the child is the first of
\* procs
RunCommand ==
    /\ procs # << >> /\ op = "init"
    /\ op' = "_run_command"
    /\ \E ran \in {_run_command(ThisModule, cmd, check, procs[1])} :
          /\ returned' = ran.ret
          /\ emitted' = emitted \o ran.out
          /\ printed' = printed \o ran.printed
    /\ runs' = Append(runs, cmd)
    /\ UNCHANGED <<config, package_manager, key, action, params, fallback,
                   value, default, result, package_name, cmd, need_sudo>>
    /\ UNCHANGED <<hostVars, probeVars>>
    /\ UNCHANGED <<procs, check, captured, module_name, output_format,
                   output_file, writable, toml_none>>
    /\ UNCHANGED <<dirs, copy_source, taken, calls>>

\* the most child processes `group add` starts: the GID check, groupadd,
\* one usermod per user, and the chroot groupadd
MaxRuns == 5

\* at most this many execute calls are made on one module instance
MaxCalls == 2

\* the name of the group in `usc group add:<name>`
GroupName == "staff"

\* USC.execute hands `group add:staff <params>` to the group module
Execute ==
    /\ module_name = "group" /\ action \in CalledActions /\ op = "init"
    /\ Len(procs) = MaxRuns
    /\ op' = "execute"
    /\ \E done \in {execute(ThisModule, action, GroupName, params, procs)} :
          /\ returned' = done.ret
          /\ emitted' = emitted \o done.out
          /\ printed' = printed \o done.printed
          /\ runs' = runs \o done.ran
          /\ dirs' = dirs \cup done.made
          /\ output_file' = done.output_file
    /\ UNCHANGED <<config, package_manager, key, action, params, fallback,
                   value, default, result, package_name, cmd, need_sudo>>
    /\ UNCHANGED <<hostVars, probeVars>>
    /\ UNCHANGED <<procs, check, captured, module_name, output_format,
                   writable, toml_none>>
    /\ UNCHANGED <<copy_source, taken>>
    /\ calls' = calls + 1

\* execute("copy", source, params) dispatches to _handle_copy, which runs
\* the command it built; an exception of the resolver leaves the handler
HandleCopy ==
    /\ action = "copy" /\ op = "init" /\ procs # << >>
    /\ op' = "_handle_copy"
    /\ value' = PyNone /\ default' = FALSE
    /\ \E built \in {_handle_copy(copy_source, params, config, taken)} :
          /\ cmd' = built.cmd
          /\ result' = IF built.raised # "" THEN PyRaise(built.raised)
                        ELSE PyNone
          /\ IF built.raised # ""
             THEN UNCHANGED <<returned, emitted, printed, runs>>
             ELSE \E ran \in {_run_command(ThisModule, built.cmd, TRUE,
                                            procs[1])} :
                    /\ returned' = ran.ret
                    /\ emitted' = emitted \o ran.out
                    /\ printed' = printed \o ran.printed
                    /\ runs' = Append(runs, built.cmd)
    /\ UNCHANGED <<config, package_manager, key, action, params, fallback,
                   package_name, need_sudo>>
    /\ UNCHANGED <<hostVars, probeVars>>
    /\ UNCHANGED <<procs, check, captured, module_name, output_format,
                   output_file, writable, toml_none>>
    /\ UNCHANGED <<dirs, copy_source, taken, calls>>

\* execute(action, service_name, params) of the service module reaches the
\* handler of the action
HandleService ==
    /\ module_name = "service" /\ action \in SvcActions /\ op = "init"
    /\ "service" \in constructed
    /\ Len(procs) = 2
    /\ op' = "_handle_service"
    /\ \E done \in {_handle_service(ThisModule, host, action, service_name,
                                    params, procs)} :
          /\ result' = IF done.escaped # "" THEN PyRaise(done.escaped)
                        ELSE PyNone
          /\ returned' = done.ret
          /\ emitted' = emitted \o done.out
          /\ printed' = printed \o done.printed
          /\ runs' = runs \o done.ran
    /\ probes' = counted(probes, service_probes(host, params))
    /\ UNCHANGED <<config, package_manager, key, action, params, fallback,
                   value, default, package_name, cmd, need_sudo>>
    /\ UNCHANGED <<hostVars, constructed, distro_id, distro_version>>
    /\ UNCHANGED <<procs, check, captured, module_name, output_format,
                   output_file, writable, toml_none>>
    /\ UNCHANGED <<dirs, copy_source, taken, calls>>

\* the call-site params of the calls made on one module instance
SessionParams ==
    {ps \in GroupParams : DOMAIN ps \subseteq {"out", "user"}
                          /\ ("user" \in DOMAIN ps => ps["user"] = "alice")}

\* one more module.execute(action, value, params) on the same instance: the
\* terminal and the envelopes are those of this call, the directories and
\* self.output_file stay from the calls before
ExecuteAgain ==
    /\ module_name = "group" /\ calls < MaxCalls
    /\ Len(procs) = MaxRuns
    /\ \E act \in CalledActions, ps \in SessionParams :
        \E done \in {execute(ThisModule, act, GroupName, ps, procs)} :
          /\ action' = act /\ params' = ps
          /\ op' = "execute"
          /\ returned' = done.ret
          /\ emitted' = done.out
          /\ printed' = done.printed
          /\ runs' = done.ran
          /\ dirs' = dirs \cup done.made
          /\ output_file' = done.output_file
    /\ calls' = calls + 1
    /\ UNCHANGED <<config, package_manager, key, fallback,
                   value, default, result, package_name, cmd, need_sudo>>
    /\ UNCHANGED <<hostVars, probeVars>>
    /\ UNCHANGED <<procs, check, captured, module_name, output_format,
                   writable, toml_none>>
    /\ UNCHANGED <<copy_source, taken>>

\* nothing was printed, run or created, and no file is copied
NoIo == /\ printed = << >> /\ runs = << >> /\ dirs = {}
        /\ copy_source = "" /\ taken = {} /\ calls = 0

\* no command is run and nothing is emitted
NoExec == /\ procs = << >> /\ check = TRUE /\ captured = NoCapture
          /\ module_name = "" /\ output_format = "toml"
          /\ output_file = NoneStr /\ writable = TRUE /\ toml_none = "omit"
          /\ emitted = << >> /\ returned = 0
          /\ NoIo

\* a host with a working `which` and none of the tools, whose release files
\* are absent
BareHost == [which |-> TRUE, tools |-> {}, os_release |-> "FileNotFoundError",
             redhat_release |-> "FileNotFoundError",
             platform |-> "AttributeError"]

\* no service or firewall command is asked for
NoHostCall == /\ host = BareHost /\ service_name = NoneStr /\ rule = NoneStr
              /\ Loaded /\ NoExec

\* no document, no resolver arguments, no package
NoResolverCall ==
    /\ config = NoConfig /\ package_manager = "unknown"
    /\ key = "" /\ fallback = PyNone /\ package_name = ""

\* the hosts that differ in `which` and in the listed tools only
HostsWith(tools) == {h \in Hosts : /\ h.tools \subseteq tools
                                   /\ h.os_release = "FileNotFoundError"
                                   /\ h.redhat_release = "FileNotFoundError"
                                   /\ h.platform = "AttributeError"}

\* the service command table: every host by its service managers, every
\* action, target and forwarded params
InitService ==
    /\ NoResolverCall /\ Constructed
    /\ host \in HostsWith({"systemctl", "service"})
    /\ action \in SvcActions
    /\ service_name \in ServiceNames
    /\ params \in SvcKwargs
    /\ rule = NoneStr
    /\ Loaded /\ NoExec
NextService == GetServiceCommand
SpecService == InitService /\ [][NextService]_vars

\* the firewall command table: every host by its firewall tools, every
\* action and rule
InitFirewall ==
    /\ NoResolverCall /\ Constructed
    /\ host \in HostsWith({"firewall-cmd", "ufw", "iptables"})
    /\ action \in FwActions
    /\ rule \in Rules
    /\ params = EmptyDict
    /\ service_name = NoneStr
    /\ Loaded /\ NoExec
NextFirewall == GetFirewallCommand
SpecFirewall == InitFirewall /\ [][NextFirewall]_vars

\* the hosts of the detection: by `which`, three of the tools, the release
\* files and the platform module
ProbeHosts == {h \in Hosts : /\ h.tools \subseteq {"apt", "systemctl", "ufw"}
                             /\ h.os_release \in
                                    {"FileNotFoundError", "UnicodeDecodeError",
                                     "ID=ubuntu VERSION_ID=22.04", "NAME=Linux"}
                             /\ h.redhat_release \in
                                    {"PermissionError",
                                     "CentOS Linux release 7.9",
                                     "Fedora release"}}

\* a process starts on some host: no module is constructed, nothing has
\* been probed
InitProbe ==
    /\ config = NoConfig /\ package_manager = NoneStr
    /\ key = "" /\ fallback = PyNone /\ package_name = ""
    /\ op = "start"
    /\ value = PyNone /\ default = FALSE /\ result = PyNone
    /\ cmd = << >> /\ need_sudo = FALSE
    /\ action = "list" /\ params = EmptyDict
    /\ service_name = NoneStr /\ rule = NoneStr
    /\ host \in ProbeHosts
    /\ constructed = {} /\ probes = NoProbes
    /\ distro_id = NoneStr /\ distro_version = NoneStr
    /\ NoExec
NextProbe ==
    \/ \E m \in AdapterModules : ConstructModule(m)
    \/ GetPackageCommand
    \/ GetServiceCommand
    \/ GetFirewallCommand
SpecProbe == InitProbe /\ [][NextProbe]_vars

\* the argv a handler captures
Argvs == {<< >>, <<"getent", "group", "100">>, <<"id", "alice">>,
          <<"systemctl", "is-active", "nginx">>, <<"sudo", "ufw", NoneStr>>}

\* the capturing executor: every argv, check setting and child outcome
InitCapture ==
    /\ NoResolverCall
    /\ op = "init"
    /\ value = PyNone /\ default = FALSE /\ result = PyNone
    /\ need_sudo = FALSE
    /\ action = NoAction /\ params = EmptyDict
    /\ host = BareHost /\ service_name = NoneStr /\ rule = NoneStr
    /\ Loaded
    /\ \E c \in Argvs : cmd = c
    /\ check \in BOOLEAN
    /\ \E child \in ChildOutcomes : procs = <<child>>
    /\ captured = NoCapture
    /\ module_name = "group" /\ output_format = "toml"
    /\ output_file = NoneStr /\ writable = TRUE /\ toml_none = "omit"
    /\ emitted = << >> /\ returned = 0
    /\ NoIo
NextCapture == RunCommandCapture
SpecCapture == InitCapture /\ [][NextCapture]_vars

\* the state of a module whose handler has not run a command yet
Idle ==
    /\ NoResolverCall
    /\ op = "init"
    /\ value = PyNone /\ default = FALSE /\ result = PyNone
    /\ need_sudo = FALSE
    /\ host = BareHost /\ service_name = NoneStr /\ rule = NoneStr
    /\ Loaded
    /\ captured = NoCapture /\ emitted = << >> /\ returned = 0
    /\ NoIo

\* the formats of --output
OutputFormats == {"toml", "raw"}

\* one command run for its output: every argv, check setting, child
\* outcome, format, destination, and behaviour of the toml library
InitToml ==
    /\ Idle
    /\ action = NoAction /\ params = EmptyDict
    /\ \E c \in Argvs : cmd = c
    /\ check \in BOOLEAN
    /\ \E child \in ChildOutcomes : procs = <<child>>
    /\ module_name \in {"group", "service"}
    /\ output_format \in OutputFormats
    /\ output_file \in {NoneStr, "/tmp/out.toml"}
    /\ writable \in BOOLEAN
    /\ toml_none \in TomlNone
NextToml == RunCommand
SpecToml == InitToml /\ [][NextToml]_vars

\* what the children of `group add` do
HandlerOutcomes == {Child("exit", 0, "", ""), Child("exit", 2, "", "failed"),
                    Child("FileNotFoundError", 0, "", "")}

\* `usc group add:staff` and `usc group bogus:staff` with every combination
\* of params, child outcomes, format and writability of the output file
InitEnvelope ==
    /\ Idle
    /\ action \in CalledActions /\ params \in GroupParams
    /\ cmd = << >> /\ check = TRUE
    /\ procs \in [1..MaxRuns -> HandlerOutcomes]
    /\ module_name = "group"
    /\ output_format \in OutputFormats
    /\ output_file = NoneStr
    /\ writable \in BOOLEAN
    /\ toml_none = "omit"
NextEnvelope == Execute
SpecEnvelope == InitEnvelope /\ [][NextEnvelope]_vars

\* a module instance that is called several times: every outcome of the
\* children that exit, both formats, writable output file or not
SessionOutcomes == {Child("exit", 0, "", ""), Child("exit", 2, "", "failed")}
InitSession ==
    /\ Idle
    /\ action = NoAction /\ params = EmptyDict
    /\ cmd = << >> /\ check = TRUE
    /\ procs \in [1..MaxRuns -> SessionOutcomes]
    /\ module_name = "group"
    /\ output_format \in OutputFormats
    /\ output_file = NoneStr
    /\ writable \in BOOLEAN
    /\ toml_none = "omit"
NextSession == ExecuteAgain
SpecSession == InitSession /\ [][NextSession]_vars

\* values a document gives the copy parameters
CopyLeaves == {PyStr("false"), PyBool(TRUE)}

\* the documents of /etc/usc/file.toml that set archive or recursive, for
\* every action or for copy; no document; a document whose default is text
CopyConfigs ==
    {NoConfig}
    \cup [has_default : {TRUE},
          dflt : [t : {"dict"},
                  keys : PartialFcn({"archive", "recursive"}, CopyLeaves),
                  sections : PartialFcn({"copy"},
                                 [t : {"dict"},
                                  keys : PartialFcn({"recursive"}, CopyLeaves),
                                  v : {"{section}"}]),
                  v : {"{default}"}]
                 \cup [t : {"str"}, keys : {EmptyDict},
                       sections : {EmptyDict}, v : {"x"}]]

\* the call-site params of `file copy`
CopyParams ==
    {ps \in PartialFcn({"archive", "recursive", "preserve", "dest"},
                       {"", "true", "false", "mode", "owner,time",
                        "/tmp/d", "/tmp/d/"}) :
        /\ "archive" \in DOMAIN ps => ps["archive"] \in {"true", "false"}
        /\ "recursive" \in DOMAIN ps => ps["recursive"] \in {"", "true", "false"}
        /\ "preserve" \in DOMAIN ps => ps["preserve"] \in {"mode", "owner,time"}
        /\ "dest" \in DOMAIN ps => ps["dest"] \in {"/tmp/d", "/tmp/d/"}}

\* `usc file copy:<source>` for every source, params, document and set of
\* numbered copies that exist already; the cp child succeeds or fails
InitCopy ==
    /\ config \in CopyConfigs /\ package_manager = "unknown"
    /\ op = "init"
    /\ value = PyNone /\ default = FALSE /\ result = PyNone
    /\ cmd = << >> /\ need_sudo = FALSE
    /\ key = "" /\ fallback = PyNone /\ package_name = ""
    /\ action = "copy" /\ params \in CopyParams
    /\ host = BareHost /\ service_name = NoneStr /\ rule = NoneStr
    /\ Loaded
    /\ \E child \in SessionOutcomes : procs = <<child>>
    /\ check = TRUE /\ captured = NoCapture
    /\ module_name = "file" /\ output_format = "toml"
    /\ output_file = NoneStr /\ writable = TRUE /\ toml_none = "omit"
    /\ emitted = << >> /\ returned = 0
    /\ printed = << >> /\ runs = << >> /\ dirs = {} /\ calls = 0
    /\ copy_source \in CopySources
    /\ taken \in SUBSET (1..MaxTaken)
NextCopy == HandleCopy
SpecCopy == InitCopy /\ [][NextCopy]_vars

\* `usc service <action>:<name>` on every host by its service managers,
\* with every action, target, call-site params, format and child outcomes
InitHandler ==
    /\ NoResolverCall /\ Constructed
    /\ host \in HostsWith({"systemctl", "service"})
    /\ action \in SvcActions
    /\ service_name \in ServiceNames \ {NoneStr}
    /\ params \in ServiceParams
    /\ rule = NoneStr
    /\ Loaded
    /\ procs \in [1..2 -> SessionOutcomes]
    /\ check = TRUE /\ captured = NoCapture
    /\ module_name = "service"
    /\ output_format \in OutputFormats
    /\ output_file = NoneStr /\ writable = TRUE /\ toml_none = "omit"
    /\ emitted = << >> /\ returned = 0
    /\ NoIo
NextHandler == HandleService
SpecHandler == InitHandler /\ [][NextHandler]_vars

\* the parameter resolver and the handlers that use it: every document, and
\* every key, action, call-site params and code default
InitResolver ==
    /\ Constructed /\ package_manager = "unknown"
    /\ key \in ParamKeys
    /\ action \in Actions \cup {NoAction}
    /\ params \in AllParams
    /\ fallback \in Fallbacks
    /\ package_name = ""
    /\ NoHostCall
NextResolver ==
    \/ GetParamValue
    \/ GetBoolParamValue
    \/ ConvertBool
    \/ HandleDel
    \/ MoveSingleItem
SpecResolver == InitResolver /\ [][NextResolver]_vars

\* the package command table: every package manager, action, target and
\* forwarded params
InitPackage ==
    /\ Constructed /\ config = NoConfig
    /\ key = "" /\ fallback = PyNone
    /\ action \in PkgActions
    /\ package_name \in PackageNames
    /\ params \in PkgKwargs
    /\ NoHostCall
NextPackage == GetPackageCommand
SpecPackage == InitPackage /\ [][NextPackage]_vars

-----------------------------------------------------------------------------
(* Properties of the parameter resolver (SpecResolver) *)

Resolvers == {"_get_param_value", "_get_bool_param_value"}
TruthyTokens == {"true", "yes", "1", "on"}

\* the layers of the document, read as the mappings the resolver expects
DefaultTable == config_get_default(config)
HasSection   == action # NoAction /\ action \in DOMAIN DefaultTable.sections
Section      == DefaultTable.sections[action]
InAction     == HasSection /\ key \in DOMAIN Section.keys
InGlobal     == key \in DOMAIN DefaultTable.keys
\* every layer the resolution reads is a table
LayersAreTables ==
    /\ DefaultTable.t = "dict"
    /\ HasSection => Section.t = "dict"

\* C1: when the key is in the call-site params, both resolvers return the
\* call-site value ("true" in the boolean variant when it is empty),
\* whatever the action and global layers of the document hold.
C1_CallSiteWins ==
    (op \in Resolvers /\ key \in DOMAIN params) =>
        result = IF op = "_get_bool_param_value" /\ params[key] = ""
                 THEN PyStr("true")
                 ELSE PyStr(params[key])

\* the key is given at the call site and set by both layers of the document
C1_Witness ==
    /\ op = "_get_param_value"
    /\ key \in DOMAIN params /\ params[key] = ""
    /\ LayersAreTables /\ InAction /\ InGlobal
    /\ Section.keys[key] = PyStr("yes") /\ DefaultTable.keys[key] = PyBool(TRUE)
    /\ result = PyStr("")

\* C2: with the key absent from the call-site params, _get_param_value
\* returns the action layer's value if the key is there, else the global
\* layer's value if the key is there and is not a nested mapping, else the
\* code default.
C2_FourTierOrder ==
    (op = "_get_param_value" /\ key \notin DOMAIN params /\ LayersAreTables) =>
        result = IF InAction THEN Section.keys[key]
                 ELSE IF InGlobal /\ DefaultTable.keys[key].t # "dict"
                      THEN DefaultTable.keys[key]
                      ELSE fallback

\* both layers hold the key with different values and the action layer won
C2_Witness ==
    /\ op = "_get_param_value" /\ key \notin DOMAIN params
    /\ LayersAreTables /\ InAction /\ InGlobal
    /\ Section.keys[key] = PyStr("false") /\ DefaultTable.keys[key] = PyStr("yes")
    /\ fallback = PyStr("true")
    /\ result = PyStr("false")

\* C3: a boolean parameter given at the call site resolves, through the
\* resolution its handler uses, to true when its value is empty or a truthy
\* token in any letter case, and to false otherwise: `file del` puts -f in
\* the rm command exactly for those values of force.
C3_DelForceFlag ==
    (op = "_handle_del" /\ result.t # "raise" /\ "force" \in DOMAIN params) =>
        ((\E i \in DOMAIN cmd : cmd[i] = "-f")
            <=> (params["force"] = "" \/ lower(params["force"]) \in TruthyTokens))

\* C4: _get_bool_param_value returns "true" for a call-site key with an
\* empty value, whatever the document holds, and for a key absent from the
\* call-site params it returns what _get_param_value returns.
C4_BoolVariant ==
    /\ (op = "_get_bool_param_value" /\ key \in DOMAIN params
            /\ params[key] = "") => result = PyStr("true")
    /\ (op = "_get_bool_param_value" /\ key \notin DOMAIN params) =>
            result = _get_param_value(key, action, params, config, fallback)

\* the flag is given empty while the action layer says false
C4_Witness ==
    /\ op = "_get_bool_param_value"
    /\ key \in DOMAIN params /\ params[key] = ""
    /\ LayersAreTables /\ InAction /\ Section.keys[key] = PyStr("false")
    /\ result = PyStr("true")

\* C5 as claimed: a value that is neither a boolean nor a number, and not a
\* truthy token, converts to the supplied default.
C5_OtherValuesGiveDefault ==
    (op = "_convert_bool" /\ value.t \notin {"bool", "int"}
        /\ ~(value.t = "str" /\ lower(value.v) \in TruthyTokens)) =>
        result = PyBool(default)

\* C5 amended: a string converts to true exactly when it is a truthy token
\* in any letter case, every other string converts to false whatever the
\* default, and a value that is neither a boolean, a number nor a string
\* converts to the supplied default.
C5_StringsIgnoreDefault ==
    /\ (op = "_convert_bool" /\ value.t = "str") =>
            result = PyBool(lower(value.v) \in TruthyTokens)
    /\ (op = "_convert_bool" /\ value.t \notin {"bool", "int", "str"}) =>
            result = PyBool(default)

\* an unrecognised string converted with default True
C5_Witness ==
    /\ op = "_convert_bool"
    /\ value = PyStr("maybe") /\ default = TRUE
    /\ result = PyBool(FALSE)

\* C6: the resolvers are total: they return a value for every document.
C6_NeverRaises ==
    op \in Resolvers => result.t # "raise"

\* C7: a nested mapping at config.default[action][key] is not returned;
\* resolution goes on to the global layer and the code default.
C7_ActionMappingSkipped ==
    (op \in Resolvers /\ key \notin DOMAIN params /\ LayersAreTables
        /\ InAction /\ Section.keys[key].t = "dict") =>
        result = IF InGlobal /\ DefaultTable.keys[key].t # "dict"
                 THEN DefaultTable.keys[key]
                 ELSE fallback

-----------------------------------------------------------------------------
(* Properties of the package command table (SpecPackage) *)

SupportedManagers == {"dnf", "yum", "apt", "apt-get", "zypper", "pacman"}
SupportedActions  == {"install", "remove", "update", "search", "info", "list"}

\* get_package_command returned a tuple for a supported manager and action
PackageBuilt ==
    /\ op = "get_package_command" /\ result.t # "raise"
    /\ package_manager \in SupportedManagers /\ action \in SupportedActions

\* C8: the argv starts with "sudo" if and only if requires_privilege is true.
C8_SudoIffPrivileged ==
    PackageBuilt => ((Len(cmd) > 0 /\ cmd[1] = "sudo") <=> need_sudo)

\* an unprivileged and unprefixed search
C8_Witness ==
    /\ PackageBuilt /\ package_manager = "dnf" /\ action = "search"
    /\ package_name = "vim"
    /\ ~need_sudo /\ cmd[1] = "dnf"

\* C9: install, remove and update require privilege and search, info and
\* list do not; an empty target adds no element to the argv; a non-empty
\* target of install is the last element; dnf install vim ends in
\* install, -y, vim.
C9_PrivilegeAndTarget ==
    PackageBuilt =>
        /\ need_sudo <=> action \in {"install", "remove", "update"}
        /\ package_name = "" => \A i \in DOMAIN cmd : cmd[i] # ""
        /\ (action = "install" /\ package_name # "") =>
              cmd[Len(cmd)] = package_name
        /\ (package_manager = "dnf" /\ action = "install"
                /\ package_name = "vim") =>
              SubSeq(cmd, Len(cmd) - 2, Len(cmd)) = <<"install", "-y", "vim">>

\* dnf install vim
C9_Witness ==
    /\ PackageBuilt /\ package_manager = "dnf" /\ action = "install"
    /\ package_name = "vim" /\ params = EmptyDict
    /\ cmd = <<"sudo", "dnf", "install", "-y", "vim">> /\ need_sudo

\* C10: for apt, apt-get and zypper, update builds the full-upgrade command
\* exactly when the upgrade option is a truthy token, and the refresh
\* command otherwise.
C10_UpgradeIffTruthy ==
    (PackageBuilt /\ action = "update"
        /\ package_manager \in {"apt", "apt-get", "zypper"}) =>
        LET upgrade == /\ "upgrade" \in DOMAIN params
                       /\ lower(params["upgrade"]) \in TruthyTokens
        IN  cmd = CASE package_manager = "apt" ->
                         IF upgrade THEN <<"sudo", "apt", "upgrade", "-y">>
                         ELSE <<"sudo", "apt", "update">>
                    [] package_manager = "apt-get" ->
                         IF upgrade THEN <<"sudo", "apt-get", "upgrade", "-y">>
                         ELSE <<"sudo", "apt-get", "update">>
                    [] package_manager = "zypper" ->
                         IF upgrade THEN <<"sudo", "zypper", "update", "-y">>
                         ELSE <<"sudo", "zypper", "refresh">>

-----------------------------------------------------------------------------
(* Properties of the service command table (SpecService) *)

\* the word w is one of the arguments of c
InArgv(c, w) == \E i \in 1..Len(c) : c[i] = w

PrivilegedSvcActions == {"start", "stop", "restart", "enable", "disable"}
TargetedSvcActions   == PrivilegedSvcActions \cup {"status"}

\* the adapter was asked, with positional arguments only, on a host where
\* `which` runs
ServiceAsked == /\ op = "get_service_command"
                /\ host.which /\ params = EmptyDict
OnSystemctl  == ServiceAsked /\ "systemctl" \in host.tools
OnService    == ServiceAsked /\ "systemctl" \notin host.tools
                             /\ "service" \in host.tools
ServiceBuilt == (OnSystemctl \/ OnService) /\ result = PyNone

\* C11: on both service manager families a command that is built requires
\* privilege exactly for start, stop, restart, enable and disable; status
\* and list do not
C11_PrivilegeByAction ==
    ServiceBuilt => (need_sudo <=> action \in PrivilegedSvcActions)

\* status of nginx on a systemctl host was built without privilege
C11_Witness ==
    /\ OnSystemctl /\ action = "status" /\ service_name = "nginx"
    /\ result = PyNone /\ need_sudo = FALSE
    /\ cmd = <<"systemctl", "status", "nginx">>

\* C12: on a host with service and without systemctl, enable and disable of
\* a named service give an argv of chkconfig for that service with "on" for
\* enable and "off" for disable, and never an argv of the service tool
C12_ChkconfigOnOff ==
    (OnService /\ action \in {"enable", "disable"} /\ truthy(service_name))
    => /\ result = PyNone
       /\ InArgv(cmd, "chkconfig") /\ InArgv(cmd, service_name)
       /\ ~InArgv(cmd, "service")
       /\ cmd[Len(cmd)] = (IF action = "enable" THEN "on" ELSE "off")

\* C13: on a systemctl host every one of the nine service actions gives an
\* argv and a privilege requirement, never an error
C13_AllActionsSupported ==
    (OnSystemctl /\ (action = "list" \/ truthy(service_name)))
    => (result = PyNone /\ cmd # << >>)

\* C15: for start, stop, restart, status, enable and disable, a missing or
\* empty service name is an error on both families, never an argv
C15_MissingTargetRejected ==
    ((OnSystemctl \/ OnService) /\ action \in TargetedSvcActions
        /\ ~truthy(service_name))
    => (result.t = "raise" /\ cmd = << >>)

-----------------------------------------------------------------------------
(* Properties of the firewall command table (SpecFirewall) *)

FirewallAsked == op = "get_firewall_command" /\ host.which
OnFirewalld   == FirewallAsked /\ "firewall-cmd" \in host.tools

\* a rule the backend cannot apply: none or empty anywhere, and on firewalld
\* one without "="
Malformed == \/ ~truthy(rule)
             \/ OnFirewalld /\ ~has_equals(rule)

\* C14: add and del with a malformed rule are an error on every backend,
\* never an argv
C14_MalformedRuleRejected ==
    (FirewallAsked /\ action \in {"add", "del"} /\ Malformed)
    => (result.t = "raise" /\ cmd = << >>)

-----------------------------------------------------------------------------
(* Properties of environment detection (SpecProbe) *)

\* C16: detection is memoized within a process: whatever modules were
\* constructed and whatever adapter calls were made, no release file and no
\* tool binary has been probed more than once
C16_ProbedAtMostOnce == \A p \in Probe : probes[p] <= 1

\* C17: no probe raises: no constructor is ended by an exception of a
\* probe, no existence check lets one escape into an adapter call, and a
\* constructed adapter has every field set
C17_NoProbeRaises ==
    /\ op # "abort"
    /\ result \notin {PyRaise("FileNotFoundError"),
                      PyRaise("UnicodeDecodeError")}
    /\ constructed # {} => /\ distro_id # NoneStr
                           /\ distro_version # NoneStr
                           /\ package_manager \in PackageManagers

-----------------------------------------------------------------------------
(* Properties of the capturing executor (SpecCapture) *)

CaptureRan == op = "_run_command_capture"
\* the child of the captured command was started
Started == ~has_none(cmd) /\ cmd # << >>

\* C18: _run_command_capture never raises: whatever the argv, the check
\* setting and the child's outcome, it returns an object with returncode,
\* stdout and stderr; after a non-zero exit returncode is the child's exit
\* code, and for a missing binary returncode is 1 and stderr is not empty
C18_CaptureNeverRaises ==
    CaptureRan =>
        /\ captured.t \in {"CompletedProcess", "CalledProcessError",
                           "NotFoundResult", "ErrorResult"}
        /\ DOMAIN captured = {"t", "returncode", "stdout", "stderr"}
        /\ (Started /\ procs[1].kind = "exit" /\ procs[1].returncode # 0)
               => captured.returncode = procs[1].returncode
        /\ (Started /\ procs[1].kind = "FileNotFoundError")
               => captured.returncode = 1 /\ captured.stderr # ""

-----------------------------------------------------------------------------
(* Properties of structured output (SpecEnvelope, SpecToml) *)

\* C19: in toml mode an execute that reaches a handler serializes exactly
\* one envelope, also when the handler chains several commands
C19_OneEnvelopePerExecute ==
    (op = "execute" /\ output_format = "toml" /\ action \in GroupActions
        /\ ~("out" \in DOMAIN params /\ params["out"] = ""))
    => Len(emitted) = 1

\* the command ran to exit 0 in toml mode
RanToSuccess == /\ op = "_run_command" /\ output_format = "toml"
                /\ ~has_none(cmd) /\ cmd # << >>
                /\ procs[1].kind = "exit" /\ procs[1].returncode = 0

\* C20: the success envelope round-trips: for the data parsed from the
\* output of a command, _output_toml returns 0 and emits one document whose
\* parse is {module, status "success", data}
C20_SuccessRoundTrip ==
    RanToSuccess =>
        /\ returned = 0
        /\ Len(emitted) = 1
        /\ emitted[1].delivered
        /\ toml_loads(emitted[1].doc) =
               OutputData(module_name, "success", "data",
                          _parse_command_output(procs[1].stdout))

-----------------------------------------------------------------------------
(* Further properties of the package and firewall command tables *)

\* C24: update with the target "all" updates every package: whatever the
\* package manager, the argv built for it does not pass the word "all" to
\* the tool as a package name
C24_UpdateAllHasNoName ==
    (op = "get_package_command" /\ action = "update" /\ package_name = "all"
        /\ result = PyNone)
    => ~InArgv(cmd, "all")

\* a rule the backend can apply: for add and del it is not Malformed, and
\* on firewalld its key is port or service
WellFormed ==
    action \in {"add", "del"} =>
        /\ ~Malformed
        /\ OnFirewalld => split_equals(rule)[1] \in {"port", "service"}

\* C29: for list, add and del with a well-formed rule, on every backend the
\* argv starts with "sudo" exactly when the privilege flag is true
C29_FirewallSudoIffPrivileged ==
    (FirewallAsked /\ action \in {"list", "add", "del"} /\ WellFormed
        /\ result = PyNone)
    => (cmd[1] = "sudo" <=> need_sudo)

-----------------------------------------------------------------------------
(* Properties of _run_command in its two formats (SpecToml) *)

\* a line of the given kind was printed
HasLine(kind) == \E i \in 1..Len(printed) : printed[i].kind = kind
\* the text was printed as a line of the given kind
HasText(kind, text) ==
    \E i \in 1..Len(printed) : printed[i].kind = kind /\ printed[i].text = text

\* the command was run in the given format and its child exited
RanToExit(fmt) == /\ op = "_run_command" /\ output_format = fmt
                  /\ ~has_none(cmd) /\ cmd # << >>
                  /\ procs[1].kind = "exit"

\* C21: in raw mode _run_command builds no envelope, prints the child's
\* stdout and the child's stderr whatever the exit status and the check
\* setting, and returns the child's exit code
C21_RawPrintsBothStreams ==
    (RanToExit("raw") /\ Undecodable \notin {procs[1].stdout, procs[1].stderr})
    => /\ emitted = << >>
       /\ returned = procs[1].returncode
       /\ procs[1].stdout # "" => HasText("stdout", procs[1].stdout)
       /\ procs[1].stderr # "" => HasText("stderr", procs[1].stderr)

\* the command was run in toml mode, whatever became of its child
RanToml == /\ op = "_run_command" /\ output_format = "toml"
           /\ ~has_none(cmd) /\ cmd # << >>

\* C27: in toml mode _run_command returns the child's exit code (so 0
\* exactly for a child that exited 0) and 1 when the child could not be
\* started, whatever the child wrote to stdout
C27_StatusIsExitCode ==
    RanToml =>
        /\ procs[1].kind = "exit" => returned = procs[1].returncode
        /\ procs[1].kind # "exit" => returned = 1

\* the status of the same call when nothing overrides the destination
StatusOnStdout ==
    _run_command(Self(module_name, output_format, NoneStr, TRUE, toml_none),
                 cmd, check, procs[1]).ret

\* C23: with an output file set, _output_toml and _output_error send the
\* envelope to the file and do not print it; without one they print it; a
\* write that fails is reported by a diagnostic and the status stays what it
\* is without the file: 0 for a success envelope, the code for an error
C23_FileInsteadOfStdout ==
    (RanToml /\ emitted # << >>)
    => /\ Len(emitted) = 1
       /\ truthy(output_file)
            => /\ emitted[1].dest = output_file
               /\ ~HasLine("envelope")
               /\ emitted[1].delivered <=> writable
               /\ ~writable => HasLine("diagnostic")
       /\ ~truthy(output_file)
            => /\ emitted[1].dest = "stdout" /\ emitted[1].delivered
               /\ HasLine("envelope")
       /\ returned = StatusOnStdout
       /\ load_value(emitted[1].doc.status).v = "success" => returned = 0

\* a success envelope could not be written to the output file: the failure
\* was reported and the status is 0
C23_Witness ==
    /\ RanToml /\ emitted # << >>
    /\ truthy(output_file) /\ ~writable
    /\ load_value(emitted[1].doc.status).v = "success"
    /\ HasLine("diagnostic") /\ ~HasLine("envelope")
    /\ returned = 0

-----------------------------------------------------------------------------
(* Properties of execute and of the group add chain (SpecEnvelope,
   SpecSession) *)

\* execute was called and did not stop at an empty out parameter
Dispatched == /\ op = "execute"
              /\ ~("out" \in DOMAIN params /\ params["out"] = "")
\* execute reached _handle_add
AddHandled == Dispatched /\ action = "add"

\* the argvs of the chain: the commands started through sudo (the getent
\* probe of the GID is not one)
IsChained(c) == c[1] = "sudo"
Chain == SelectSeq(runs, IsChained)
\* the child that answered the groupadd command
GroupaddChild == procs[IF "gid" \in DOMAIN params THEN 2 ELSE 1]
\* the status _run_command gives for groupadd
GroupaddStatus ==
    _run_command(ThisModule, Chain[1], TRUE, GroupaddChild).ret

\* C26: group add starts groupadd first; a usermod per member and the chroot
\* groupadd follow, in this order, only when groupadd gave 0; the handler
\* returns the groupadd status whatever the later commands did
C26_ChainInOrder ==
    AddHandled =>
        /\ Chain # << >> /\ Chain[1][2] = "groupadd"
        /\ returned = GroupaddStatus
        /\ returned # 0 => Len(Chain) = 1
        /\ \A i \in 2..Len(Chain) :
              /\ Chain[i][2] \in {"usermod", "chroot"}
              /\ Chain[i][2] = "usermod" =>
                    /\ "user" \in DOMAIN params
                    /\ i < Len(Chain) => Chain[i + 1][2] \in {"usermod", "chroot"}
              /\ Chain[i][2] = "chroot" =>
                    "chroot" \in DOMAIN params /\ i = Len(Chain)
        /\ returned = 0 =>
              Len(Chain) = 1
                  + (IF "user" \in DOMAIN params
                     THEN Len(split_users(params["user"])) ELSE 0)
                  + (IF "chroot" \in DOMAIN params THEN 1 ELSE 0)

\* groupadd gave 0, then a usermod and the chroot groupadd failed, and the
\* handler returned 0
C26_Witness ==
    /\ AddHandled /\ output_format = "toml"
    /\ Len(Chain) = 3 /\ Chain[2][2] = "usermod" /\ Chain[3][2] = "chroot"
    /\ \E i \in 1..Len(printed) : printed[i].kind = "warning"
    /\ returned = 0

\* the execute call failed: it was refused for its out parameter or its
\* action, or groupadd did not exit 0, or an envelope did not reach its
\* destination
ExecuteFailed ==
    /\ op = "execute"
    /\ \/ ~Dispatched
       \/ action \notin GroupActions
       \/ GroupaddChild.kind # "exit" \/ GroupaddChild.returncode # 0
       \/ \E i \in 1..Len(emitted) : ~emitted[i].delivered

\* an Error envelope reached its destination
ErrorEnvelopeEmitted ==
    \E i \in 1..Len(emitted) :
        /\ emitted[i].delivered
        /\ load_value(emitted[i].doc.status).v = "error"

\* C22: no failure is silent: an execute call that fails returns a non-zero
\* status and either printed a diagnostic or emitted an Error envelope
C22_NoSilentFailure ==
    ExecuteFailed =>
        /\ returned # 0
        /\ HasLine("diagnostic") \/ HasLine("log") \/ ErrorEnvelopeEmitted

\* C30: the output file belongs to the call that set it: in every step of a
\* session, a call whose params have no out key sends its envelopes to
\* standard output, and a call with an unknown action leaves output_file as
\* it was and creates no directory
C30_OverrideScopedToCall ==
    [][op' = "execute" =>
          /\ ("out" \notin DOMAIN params' /\ action' \in GroupActions)
                => \A i \in 1..Len(emitted') : emitted'[i].dest = "stdout"
          /\ action' \notin GroupActions
                => output_file' = output_file /\ dirs' = dirs]_vars

-----------------------------------------------------------------------------
(* Properties of file copy (SpecCopy) *)

\* _handle_copy built a command
CopyBuilt == op = "_handle_copy" /\ result = PyNone

\* the recursive parameter as the handler resolves it
ResolvedRecursive ==
    _convert_bool(_get_param_value("recursive", "copy", params, config,
                                   PyStr("true")), FALSE)
\* the archive parameter as the handler resolves it
ResolvedArchive ==
    _convert_bool(_get_param_value("archive", "copy", params, config,
                                   PyStr("true")), FALSE)

\* C25: whatever archive and recursive are, the cp argv has --recursive
\* exactly when the resolved recursive parameter is true, and it ends with
\* the source and the destination
C25_RecursiveIffResolved ==
    CopyBuilt =>
        /\ cmd[1] = "cp"
        /\ InArgv(cmd, "--recursive") <=> ResolvedRecursive
        /\ Len(cmd) >= 3
        /\ cmd[Len(cmd) - 1] = copy_source
        /\ cmd[Len(cmd)] = copy_dest(copy_source, params, taken)

\* archive mode with recursive:false: the --recursive it added is gone and
\* the numbered destination comes last
C25_Witness ==
    /\ CopyBuilt /\ ResolvedArchive /\ ~ResolvedRecursive
    /\ InArgv(cmd, "--no-dereference") /\ ~InArgv(cmd, "--recursive")
    /\ "dest" \notin DOMAIN params /\ taken = {1}
    /\ cmd[Len(cmd)] = "/tmp/a_2/"

-----------------------------------------------------------------------------
(* Properties of the service handlers (SpecHandler) *)

\* a service handler was called
ServiceHandled == op = "_handle_service"

\* C28: on a host whose `which` works, whatever the action and the
\* call-site params, the handler returns: it ran the argv of the adapter and
\* gives the status of the command, or it gives the status of an Error
\* envelope; no exception leaves it
C28_HandlerAlwaysReturns ==
    (ServiceHandled /\ host.which) =>
        /\ result = PyNone
        /\ \/ runs # << >>
           \/ returned = 1 /\ (output_format = "toml" => ErrorEnvelopeEmitted)

====
